---- MODULE Spec2Model ----
(***************************************************************************)
(* pg2mermaid: the SQL-subset parser (src/pg2mermaid/parser.py), the       *)
(* schema model (src/pg2mermaid/models.py), the Mermaid renderer           *)
(* (src/pg2mermaid/renderer.py), the command line (src/pg2mermaid/cli.py)  *)
(* and the image export (src/pg2mermaid/exporter.py).                      *)
(*                                                                         *)
(* Texts are TLA+ strings; positions are 1-based (Python's index i is the  *)
(* model's i+1).  Every regular expression of the parser is translated to  *)
(* an operator that computes the match Python's backtracking matcher       *)
(* returns, on the text itself and on its upper-cased copy (re.IGNORECASE).*)
(***************************************************************************)
EXTENDS Integers, Sequences, FiniteSets, TLC

VARIABLES stmts, sql, pc, pos, db, bodies, options, out, cli

vars == <<stmts, sql, pc, pos, db, bodies, options, out, cli>>

-----------------------------------------------------------------------------
(* Characters and strings                                                  *)

LowerAlpha == "abcdefghijklmnopqrstuvwxyz"
UpperAlpha == "ABCDEFGHIJKLMNOPQRSTUVWXYZ"
Digits == "0123456789"

Letters(a) == {SubSeq(a, k, k) : k \in 1..Len(a)}

ToUpper ==
  [c \in Letters(LowerAlpha) |->
     LET k == CHOOSE k \in 1..Len(LowerAlpha) : SubSeq(LowerAlpha, k, k) = c
     IN  SubSeq(UpperAlpha, k, k)]

ToLower ==
  [c \in Letters(UpperAlpha) |->
     LET k == CHOOSE k \in 1..Len(UpperAlpha) : SubSeq(UpperAlpha, k, k) = c
     IN  SubSeq(LowerAlpha, k, k)]

WordChars == Letters(LowerAlpha) \cup Letters(UpperAlpha) \cup Letters(Digits) \cup {"_"}

SpaceChars == {" ", "\n", "\t"}

\* F(v) with v evaluated once, before F is: the model's local variables are
\* bound this way, as the values the code has computed at that point
With(v, F(_)) == CHOOSE r \in {F(a) : a \in {v}} : TRUE

\* s[i-1] of Python, "" outside the text
At(s, i) == IF i >= 1 /\ i <= Len(s) THEN SubSeq(s, i, i) ELSE ""

\* s[i-1:j] of Python (both ends clipped to the text)
Sub(s, i, j) ==
  LET a == IF i < 1 THEN 1 ELSE i
      b == IF j > Len(s) THEN Len(s) ELSE j
  IN  IF a > b THEN "" ELSE SubSeq(s, a, b)

From(s, i) == Sub(s, i, Len(s))

IsSpace(c) == c \in SpaceChars

IsWord(c) == c \in WordChars

\* the least k in lo..hi with P(k), 0 when there is none
FirstIn(lo, hi, P(_)) ==
  IF \E k \in lo..hi : P(k)
  THEN CHOOSE k \in lo..hi : P(k) /\ \A j \in lo..(k - 1) : ~P(j)
  ELSE 0

\* the greatest k in lo..hi with P(k), 0 when there is none
LastIn(lo, hi, P(_)) ==
  IF \E k \in lo..hi : P(k)
  THEN CHOOSE k \in lo..hi : P(k) /\ \A j \in (k + 1)..hi : ~P(j)
  ELSE 0

\* the least k with 2^k >= n
Log2(n) == CHOOSE k \in 0..30 : 2^k >= n /\ (k = 0 \/ 2^(k - 1) < n)

\* the 2^k characters of s from position lo (those that exist), with every
\* character c of DOMAIN map replaced by map[c] (the range is halved, so that
\* the evaluation nests to the logarithm of its length only)
RECURSIVE TranslateRange(_, _, _, _)
TranslateRange(s, map, lo, k) ==
  IF lo > Len(s) THEN ""
  ELSE IF k = 0
  THEN With(SubSeq(s, lo, lo), LAMBDA c : IF c \in DOMAIN map THEN map[c] ELSE c)
  ELSE TranslateRange(s, map, lo, k - 1) \o TranslateRange(s, map, lo + 2^(k - 1), k - 1)

\* the text s with every character c of DOMAIN map replaced by map[c]
Translate(s, map) ==
  With(s, LAMBDA t : With(map, LAMBDA m : TranslateRange(t, m, 1, Log2(Len(t)))))

\* str.upper()
Upper(s) == Translate(s, ToUpper)

\* str.lower()
Lower(s) == Translate(s, ToLower)

\* first position >= i that holds no white space (Len(s)+1 when there is none): \s*
SkipSpace(s, i) ==
  IF i > Len(s) THEN i ELSE FirstIn(i, Len(s) + 1, LAMBDA k : ~IsSpace(At(s, k)))

\* last position <= i that holds no white space (0 when there is none)
SkipSpaceBack(s, i) == LastIn(1, i, LAMBDA k : ~IsSpace(At(s, k)))

\* str.strip()
Strip(s) == With(s, LAMBDA t : Sub(t, SkipSpace(t, 1), SkipSpaceBack(t, Len(t))))

\* str.lstrip()
LStrip(s) == With(s, LAMBDA t : From(t, SkipSpace(t, 1)))

\* str.startswith
StartsWith(s, p) == Sub(s, 1, Len(p)) = p

\* first position >= i where p occurs in s, 0 when there is none: str.find / `p in s`
Find(s, p, i) ==
  FirstIn(IF i < 1 THEN 1 ELSE i, Len(s) - Len(p) + 1,
          LAMBDA k : SubSeq(s, k, k + Len(p) - 1) = p)

Contains(s, p) == Find(s, p, 1) # 0

\* str.replace(c, "") for one character c
Remove(s, c) == Translate(s, c :> "")

\* end of the longest run of characters from i that are not in the set bad
\* (the position after the run): a greedy [^...]+ or [^...]*
RunNotIn(s, i, bad) ==
  IF i > Len(s) THEN i ELSE FirstIn(i, Len(s) + 1, LAMBDA k : k > Len(s) \/ At(s, k) \in bad)

\* end of the longest run of word characters from i: a greedy \w+
RunWord(s, i) ==
  IF i > Len(s) THEN i ELSE FirstIn(i, Len(s) + 1, LAMBDA k : ~IsWord(At(s, k)))

\* the literal lit at position i of the upper-cased text u: the position after it, or 0
Lit(u, i, lit) ==
  IF i >= 1 /\ Sub(u, i, i + Len(lit) - 1) = lit THEN i + Len(lit) ELSE 0

\* lit\s+ at position i: the position after the white space, or 0
Kw(u, i, lit) ==
  With(Lit(u, i, lit), LAMBDA e :
    IF e # 0 /\ IsSpace(At(u, e)) THEN SkipSpace(u, e) ELSE 0)

\* lit\s* at position i: the position after the white space, or 0
KwOpt(u, i, lit) ==
  With(Lit(u, i, lit), LAMBDA e :
    IF e # 0 THEN SkipSpace(u, e) ELSE 0)

\* lit1\s+lit2\s+ ... at position i (each followed by \s+): the position after, or 0
RECURSIVE Kws(_, _, _)
Kws(u, i, lits) ==
  IF lits = <<>> THEN i
  ELSE With(Kw(u, i, Head(lits)), LAMBDA e :
         IF e = 0 THEN 0 ELSE Kws(u, e, Tail(lits)))

NoMatch == [ok |-> FALSE]


-----------------------------------------------------------------------------
(* The schema model (models.py).  An optional value (str | None) is the    *)
(* empty sequence when absent and a one-element sequence when present.     *)

None == <<>>

Some(v) == <<v>>

\* parser.py: DEFAULT_SCHEMA
DEFAULT_SCHEMA == "public"

\* models.py: Column(...)
Column(name, data_type, nullable, default, is_pk, is_fk) ==
  [name |-> name, data_type |-> data_type, nullable |-> nullable,
   default |-> default, is_primary_key |-> is_pk, is_foreign_key |-> is_fk]

\* models.py: ForeignKey(...)
ForeignKey(columns, ref_schema, ref_table, ref_columns, constraint_name, on_delete, on_update) ==
  [columns |-> columns, ref_schema |-> ref_schema, ref_table |-> ref_table,
   ref_columns |-> ref_columns, constraint_name |-> constraint_name,
   on_delete |-> on_delete, on_update |-> on_update]

\* models.py: Table(name=name, schema=schema)
NewTable(name, schema) ==
  [name |-> name, schema |-> schema, columns |-> <<>>, primary_key |-> <<>>,
   foreign_keys |-> <<>>, unique_constraints |-> <<>>]

\* Table.add_column
add_column(table, column) ==
  [table EXCEPT !.columns = Append(@, column)]

\* Table.get_column finds the FIRST column of that name; the setters below
\* write to that column only.
FirstColumnIndex(table, name) ==
  IF \E k \in 1..Len(table.columns) : table.columns[k].name = name
  THEN CHOOSE k \in 1..Len(table.columns) :
         /\ table.columns[k].name = name
         /\ \A j \in 1..(k - 1) : table.columns[j].name # name
  ELSE 0

IsFirstNamed(table, k, names) ==
  \E n \in 1..Len(names) : FirstColumnIndex(table, names[n]) = k

\* Table.set_primary_key without the marking loop of lines 85-88
set_primary_key_list_only(table, columns) ==
  [table EXCEPT !.primary_key = columns]

\* Table.set_primary_key
set_primary_key(table, columns) ==
  With(table, LAMBDA t : With(columns, LAMBDA cs :
    [t EXCEPT
       !.primary_key = cs,
       !.columns = [k \in 1..Len(t.columns) |->
                      IF IsFirstNamed(t, k, cs)
                      THEN [t.columns[k] EXCEPT !.is_primary_key = TRUE]
                      ELSE t.columns[k]]]))

\* Table.add_foreign_key
add_foreign_key(table, fk) ==
  With(table, LAMBDA t : With(fk, LAMBDA f :
    [t EXCEPT
       !.foreign_keys = Append(@, f),
       !.columns = [k \in 1..Len(t.columns) |->
                      IF IsFirstNamed(t, k, f.columns)
                      THEN [t.columns[k] EXCEPT !.is_foreign_key = TRUE]
                      ELSE t.columns[k]]]))

\* table.unique_constraints.append(columns)
add_unique(table, columns) ==
  [table EXCEPT !.unique_constraints = Append(@, columns)]

\* The Database is the sequence of its schemas in creation order (a dict keeps
\* insertion order); a schema is [name, tables], its tables in insertion order.
EmptyDatabase == <<>>

SchemaIndex(d, schema) ==
  IF \E k \in 1..Len(d) : d[k].name = schema
  THEN CHOOSE k \in 1..Len(d) : d[k].name = schema
  ELSE 0

TableIndex(tables, name) ==
  IF \E k \in 1..Len(tables) : tables[k].name = name
  THEN CHOOSE k \in 1..Len(tables) : tables[k].name = name
  ELSE 0

\* Database.get_table: <<table>> or None
get_table(d, schema, name) ==
  With(SchemaIndex(d, schema), LAMBDA si :
  With(IF si = 0 THEN 0 ELSE TableIndex(d[si].tables, name), LAMBDA ti :
    IF ti = 0 THEN None ELSE Some(d[si].tables[ti])))

\* Schema.add_table: tables[table.name] = table
schema_add_table(tables, table) ==
  With(TableIndex(tables, table.name), LAMBDA ti :
    IF ti = 0 THEN Append(tables, table) ELSE [tables EXCEPT ![ti] = table])

\* Database.add_table (get_schema creates the schema on first use)
add_table(d, table) ==
  With(table, LAMBDA t :
  With(SchemaIndex(d, t.schema), LAMBDA si :
    IF si = 0
    THEN Append(d, [name |-> t.schema, tables |-> <<t>>])
    ELSE [d EXCEPT ![si].tables = schema_add_table(@, t)]))

\* the in-place update of a table that get_table returned
put_table(d, table) == add_table(d, table)

\* Database.all_tables, as a sequence
RECURSIVE all_tables(_)
all_tables(d) == IF d = <<>> THEN <<>> ELSE Head(d).tables \o all_tables(Tail(d))

\* Database.table_count
RECURSIVE table_count(_)
table_count(d) == IF d = <<>> THEN 0 ELSE Len(Head(d).tables) + table_count(Tail(d))

-----------------------------------------------------------------------------
(* parser.py: names, the definition splitter, the classifier               *)

\* _parse_qualified_name without the removal of double quotes of line 97
_parse_qualified_name_keeping_quotes(qname) ==
  With(qname, LAMBDA name :
  With(Find(name, ".", 1), LAMBDA dot :
    IF dot # 0
    THEN <<Sub(name, 1, dot - 1), From(name, dot + 1)>>
    ELSE <<DEFAULT_SCHEMA, name>>))

\* _parse_qualified_name: <<schema, name>>
_parse_qualified_name(qname) ==
  With(Remove(qname, "\""), LAMBDA name :
  With(Find(name, ".", 1), LAMBDA dot :
    IF dot # 0
    THEN <<Sub(name, 1, dot - 1), From(name, dot + 1)>>
    ELSE <<DEFAULT_SCHEMA, name>>))

\* the test of line 123: body[i] is a quote that no backslash precedes
IsQuoteAt(body, i) ==
  /\ At(body, i) \in {"'", "\""}
  /\ (i = 1 \/ At(body, i - 1) # "\\")

\* lines 123-128: the string state after the character at i has been looked at
StringStep(body, i, st) ==
  IF IsQuoteAt(body, i)
  THEN IF ~st.in_string
       THEN [in_string |-> TRUE, string_char |-> At(body, i)]
       ELSE IF At(body, i) = st.string_char
            THEN [in_string |-> FALSE, string_char |-> st.string_char]
            ELSE st
  ELSE st

\* lines 130-134: the parenthesis depth after the character at i
DepthStep(body, i, in_string, paren_depth) ==
  IF in_string THEN paren_depth
  ELSE IF At(body, i) = "(" THEN paren_depth + 1
  ELSE IF At(body, i) = ")" THEN paren_depth - 1
  ELSE paren_depth

\* the test of line 135 without its paren_depth conjunct
IsSplitComma_at_any_depth(body, i, in_string, paren_depth) ==
  ~in_string /\ At(body, i) = ","

\* line 135: the character at i is a comma that ends the current definition
IsSplitComma(body, i, in_string, paren_depth) ==
  ~in_string /\ At(body, i) = "," /\ paren_depth = 0

\* the iteration with every comma outside a string taken out of the text
SplitStep_dropping_commas(body, i, sp) ==
  With(StringStep(body, i, [in_string |-> sp.in_string, string_char |-> sp.string_char]), LAMBDA st2 :
    IF IsSplitComma(body, i, st2.in_string, sp.paren_depth)
    THEN [definitions |-> Append(sp.definitions, Strip(sp.current)),
          current |-> "", paren_depth |-> sp.paren_depth,
          in_string |-> st2.in_string, string_char |-> st2.string_char]
    ELSE [definitions |-> sp.definitions,
          current |-> sp.current \o (IF ~st2.in_string /\ At(body, i) = "," THEN "" ELSE At(body, i)),
          paren_depth |-> DepthStep(body, i, st2.in_string, sp.paren_depth),
          in_string |-> st2.in_string, string_char |-> st2.string_char])

\* one iteration of the while loop of _split_definitions (lines 120-142), at
\* index i; sp is the loop's state
SplitStep(body, i, sp) ==
  With(StringStep(body, i, [in_string |-> sp.in_string, string_char |-> sp.string_char]), LAMBDA st2 :
    IF IsSplitComma(body, i, st2.in_string, sp.paren_depth)
    THEN [definitions |-> Append(sp.definitions, Strip(sp.current)),
          current |-> "", paren_depth |-> sp.paren_depth,
          in_string |-> st2.in_string, string_char |-> st2.string_char]
    ELSE [definitions |-> sp.definitions,
          current |-> sp.current \o At(body, i),
          paren_depth |-> DepthStep(body, i, st2.in_string, sp.paren_depth),
          in_string |-> st2.in_string, string_char |-> st2.string_char])

\* the iterations of the while loop for the 2^k indices from lo (those that
\* exist), in order, from the state sp (the range is halved so that the
\* evaluation nests to the logarithm of its length; the iterations still run
\* first to last)
RECURSIVE SplitLoop(_, _, _, _)
SplitLoop(body, lo, k, sp) ==
  IF lo > Len(body) THEN sp
  ELSE IF k = 0 THEN SplitStep(body, lo, sp)
  ELSE With(SplitLoop(body, lo, k - 1, sp), LAMBDA half :
         SplitLoop(body, lo + 2^(k - 1), k - 1, half))

\* lines 112-116: the state the loop starts in
SplitStart ==
  [definitions |-> <<>>, current |-> "", paren_depth |-> 0,
   in_string |-> FALSE, string_char |-> ""]

\* _split_definitions
_split_definitions(body) ==
  With(body, LAMBDA b :
  With(SplitLoop(b, 1, Log2(Len(b)), SplitStart), LAMBDA sp :
    IF sp.current # "" THEN Append(sp.definitions, Strip(sp.current))
    ELSE sp.definitions))

ConstraintKeywords ==
  <<"PRIMARY KEY", "FOREIGN KEY", "UNIQUE", "CHECK", "EXCLUDE", "CONSTRAINT">>

\* _is_table_constraint
_is_table_constraint(definition) ==
  With(LStrip(Upper(definition)), LAMBDA upper :
    \E k \in 1..Len(ConstraintKeywords) : StartsWith(upper, ConstraintKeywords[k]))

\* _parse_column_list: columns_str.split(","), each stripped and unquoted,
\* the empty ones dropped
RECURSIVE _parse_column_list(_)
_parse_column_list(columns_str) ==
  With(columns_str, LAMBDA cs :
  With(Find(cs, ",", 1), LAMBDA comma :
  With(IF comma = 0 THEN cs ELSE Sub(cs, 1, comma - 1), LAMBDA first :
  With(Remove(Strip(first), "\""), LAMBDA col :
  With(IF col # "" THEN <<col>> ELSE <<>>, LAMBDA here :
    IF comma = 0 THEN here
    ELSE here \o _parse_column_list(From(cs, comma + 1)))))))

-----------------------------------------------------------------------------
(* parser.py: column definitions                                           *)

\* the pattern of _parse_column at lines 175-179, matched at the start of the
\* definition:  ^"?([^"\s]+)"?\s+(.+)$   (DOTALL)
ColumnPattern(definition) ==
  With(IF At(definition, 1) = "\"" THEN 2 ELSE 1, LAMBDA p :
  With(RunNotIn(definition, p, SpaceChars \cup {"\""}), LAMBDA e :
  With(IF At(definition, e) = "\"" THEN e + 1 ELSE e, LAMBDA q :
  With(SkipSpace(definition, q), LAMBDA r :
    IF e > p /\ IsSpace(At(definition, q)) /\ r <= Len(definition)
    THEN [ok |-> TRUE, name |-> Sub(definition, p, e - 1), rest |-> From(definition, r)]
    ELSE NoMatch))))

\* \b between the positions i-1 and i
WordBoundary(s, i) == IsWord(At(s, i - 1)) # IsWord(At(s, i))

\* re.search(r"\b" + keyword + r"\b") from position i on the upper-cased text:
\* the start of the first match, 0 when there is none
RECURSIVE SearchKeyword(_, _, _)
SearchKeyword(u, keyword, i) ==
  With(Find(u, keyword, i), LAMBDA j :
    IF j = 0 THEN 0
    ELSE IF WordBoundary(u, j) /\ WordBoundary(u, j + Len(keyword)) THEN j
    ELSE SearchKeyword(u, keyword, j + 1))

ColumnConstraintKeywords ==
  <<"NOT NULL", "NULL", "DEFAULT", "PRIMARY KEY", "UNIQUE", "REFERENCES", "CHECK",
    "COLLATE", "CONSTRAINT", "GENERATED">>

\* _extract_type_and_constraints: <<data_type, constraints>>
_extract_type_and_constraints(rest) ==
  With(rest, LAMBDA r :
  With(Upper(r), LAMBDA upper :
  With({SearchKeyword(upper, ColumnConstraintKeywords[k], 1) :
          k \in 1..Len(ColumnConstraintKeywords)} \ {0}, LAMBDA hits :
  With(IF hits = {} THEN Len(r) + 1
       ELSE CHOOSE m \in hits : \A h \in hits : m <= h, LAMBDA min_pos :
    <<Strip(Sub(r, 1, min_pos - 1)), Strip(From(r, min_pos))>>))))

\* " ".join(data_type.split())
RECURSIVE CollapseSpace(_)
CollapseSpace(s) ==
  With(s, LAMBDA t :
  With(SkipSpace(t, 1), LAMBDA a :
  With(RunNotIn(t, a, SpaceChars), LAMBDA e :
    IF a > Len(t) THEN ""
    ELSE With(CollapseSpace(From(t, e)), LAMBDA more :
           IF more = "" THEN Sub(t, a, e - 1)
           ELSE Sub(t, a, e - 1) \o " " \o more))))

\* type_map with CHARACTER tried before CHARACTER VARYING
type_map_character_first ==
  << <<"CHARACTER", "char">>, <<"CHARACTER VARYING", "varchar">>,
     <<"INTEGER", "int">>, <<"BIGINT", "bigint">>, <<"SMALLINT", "smallint">>,
     <<"BOOLEAN", "bool">>, <<"DOUBLE PRECISION", "float8">>, <<"REAL", "float4">>,
     <<"TIMESTAMP WITHOUT TIME ZONE", "timestamp">>,
     <<"TIMESTAMP WITH TIME ZONE", "timestamptz">>,
     <<"TIME WITHOUT TIME ZONE", "time">>, <<"TIME WITH TIME ZONE", "timetz">> >>

\* type_map, in the order of the dict
type_map ==
  << <<"CHARACTER VARYING", "varchar">>, <<"CHARACTER", "char">>,
     <<"INTEGER", "int">>, <<"BIGINT", "bigint">>, <<"SMALLINT", "smallint">>,
     <<"BOOLEAN", "bool">>, <<"DOUBLE PRECISION", "float8">>, <<"REAL", "float4">>,
     <<"TIMESTAMP WITHOUT TIME ZONE", "timestamp">>,
     <<"TIMESTAMP WITH TIME ZONE", "timestamptz">>,
     <<"TIME WITHOUT TIME ZONE", "time">>, <<"TIME WITH TIME ZONE", "timetz">> >>

\* _normalize_type
_normalize_type(raw) ==
  With(CollapseSpace(raw), LAMBDA data_type :
  With(Upper(data_type), LAMBDA upper :
  With({k \in 1..Len(type_map) : StartsWith(upper, type_map[k][1])}, LAMBDA hits :
    IF hits = {} THEN Lower(data_type)
    ELSE With(CHOOSE m \in hits : \A h \in hits : m <= h, LAMBDA k :
           type_map[k][2] \o From(data_type, Len(type_map[k][1]) + 1)))))

\* '(?:[^']|'')*' at position i for the quote character q: the position after the
\* closing quote, 0 when the pattern does not match.  p is the position the
\* starred group has reached and k the next quote: the group runs over the
\* characters before k, takes a doubled quote when the rest matches after it
\* (it is greedy) and otherwise ends at k.
RECURSIVE QuotedEnd(_, _, _)
QuotedEnd(s, p, q) ==
  With(Find(s, q, p), LAMBDA k :
    IF k = 0 THEN 0
    ELSE IF At(s, k + 1) = q
    THEN With(QuotedEnd(s, k + 2, q), LAMBDA longer :
           IF longer # 0 THEN longer ELSE k + 1)
    ELSE k + 1)

\* the value group of the pattern of _extract_default at position i: the
\* position after the value, 0 when no alternative matches
DefaultValueEnd(s, i) ==
  With(IF At(s, i) \in {"'", "\""} THEN QuotedEnd(s, i + 1, At(s, i)) ELSE 0, LAMBDA quoted :
  With(RunNotIn(s, i + 1, {")"}), LAMBDA inner :
  With(IF At(s, i) = "(" /\ inner > i + 1 /\ At(s, inner) = ")"
       THEN inner + 1 ELSE 0, LAMBDA paren :
  With(RunNotIn(s, i, SpaceChars \cup {",", ")"}), LAMBDA bare :
    IF quoted # 0 THEN quoted
    ELSE IF paren # 0 THEN paren
    ELSE IF bare > i THEN bare
    ELSE 0))))

\* pattern.search of _extract_default from position i: the default, or None
RECURSIVE SearchDefault(_, _, _)
SearchDefault(s, u, i) ==
  With(Find(u, "DEFAULT", i), LAMBDA j :
  With(Kw(u, j, "DEFAULT"), LAMBDA v :
  With(IF v = 0 THEN 0 ELSE DefaultValueEnd(s, v), LAMBDA e :
    IF j = 0 THEN None
    ELSE IF e # 0 THEN Some(Sub(s, v, e - 1))
    ELSE SearchDefault(s, u, j + 1))))

\* _extract_default
_extract_default(constraints) ==
  With(constraints, LAMBDA c : With(Upper(c), LAMBDA u : SearchDefault(c, u, 1)))

\* _parse_column: <<column>> or None
_parse_column(definition0) ==
  With(Strip(definition0), LAMBDA definition :
  With(ColumnPattern(definition), LAMBDA m :
    IF definition = "" THEN None
    ELSE IF ~m.ok THEN None
    ELSE With(_extract_type_and_constraints(Strip(m.rest)), LAMBDA tc :
         With(tc[2], LAMBDA constraints :
           IF tc[1] = "" THEN None
           ELSE Some(Column(m.name, _normalize_type(tc[1]),
                            ~Contains(Upper(constraints), "NOT NULL"),
                            _extract_default(constraints),
                            Contains(Upper(constraints), "PRIMARY KEY"),
                            FALSE))))))

-----------------------------------------------------------------------------
(* parser.py: table-level constraints                                      *)

\* \(([^)]+)\) at position i: the group and the position after the ")"
ParenGroupAt(s, i) ==
  With(RunNotIn(s, i + 1, {")"}), LAMBDA e :
    IF At(s, i) = "(" /\ e > i + 1 /\ At(s, e) = ")"
    THEN [ok |-> TRUE, text |-> Sub(s, i + 1, e - 1), end |-> e + 1]
    ELSE NoMatch)

\* first match of  kw1\s+kw2\s*\(([^)]+)\)  from position i  (PRIMARY KEY), or of
\* kw1\s*\(([^)]+)\)  when kw2 is ""  (UNIQUE)
RECURSIVE SearchKeyList(_, _, _, _, _)
SearchKeyList(s, u, kw1, kw2, i) ==
  With(Find(u, kw1, i), LAMBDA j :
  With(IF kw2 = "" THEN KwOpt(u, j, kw1) ELSE Kw(u, j, kw1), LAMBDA a :
  With(IF a = 0 \/ kw2 = "" THEN a ELSE KwOpt(u, a, kw2), LAMBDA b :
  With(IF b = 0 THEN NoMatch ELSE ParenGroupAt(s, b), LAMBDA g :
    IF j = 0 THEN NoMatch
    ELSE IF g.ok THEN [ok |-> TRUE, start |-> j, text |-> g.text, end |-> g.end]
    ELSE SearchKeyList(s, u, kw1, kw2, j + 1)))))

\* _apply_primary_key_constraint keeping only the first name of the list
_apply_primary_key_constraint_first_name(table, constraint) ==
  With(constraint, LAMBDA c :
  With(SearchKeyList(c, Upper(c), "PRIMARY", "KEY", 1), LAMBDA m :
    IF m.ok THEN set_primary_key(table, SubSeq(_parse_column_list(m.text), 1, 1)) ELSE table))

\* _apply_primary_key_constraint
_apply_primary_key_constraint(table, constraint) ==
  With(constraint, LAMBDA c :
  With(SearchKeyList(c, Upper(c), "PRIMARY", "KEY", 1), LAMBDA m :
    IF m.ok THEN set_primary_key(table, _parse_column_list(m.text)) ELSE table))

\* (?:\s+ON\s+<which>\s+(\w+(?:\s+\w+)?))? at position i: the action (None when
\* the group does not take part) and the position after the group
ActionGroupAt(s, u, i, which) ==
  With(IF IsSpace(At(u, i)) THEN Kws(u, SkipSpace(u, i), <<"ON", which>>) ELSE 0, LAMBDA a :
  With(RunWord(s, a), LAMBDA w1 :
  With(SkipSpace(s, w1), LAMBDA b :
  With(RunWord(s, b), LAMBDA w2 :
  With(IF IsSpace(At(s, w1)) /\ w2 > b THEN w2 ELSE w1, LAMBDA e :
    IF a # 0 /\ w1 > a
    THEN [value |-> Some(Sub(s, a, e - 1)), end |-> e]
    ELSE [value |-> None, end |-> i])))))

\* FOREIGN\s+KEY\s*\(([^)]+)\)\s*REFERENCES\s+([^\s(]+)\s*\(([^)]+)\)
\* (?:\s+ON\s+DELETE\s+(\w+(?:\s+\w+)?))?(?:\s+ON\s+UPDATE\s+(\w+(?:\s+\w+)?))?
\* at position i
ForeignKeyClauseAt(s, u, i) ==
  With(Kw(u, i, "FOREIGN"), LAMBDA a :
  With(IF a = 0 THEN 0 ELSE KwOpt(u, a, "KEY"), LAMBDA b :
  With(IF b = 0 THEN NoMatch ELSE ParenGroupAt(s, b), LAMBDA cols :
  With(IF cols.ok THEN Kw(u, SkipSpace(u, cols.end), "REFERENCES") ELSE 0, LAMBDA c :
  With(RunNotIn(s, c, SpaceChars \cup {"("}), LAMBDA e :
  With(IF c # 0 /\ e > c THEN ParenGroupAt(s, SkipSpace(s, e)) ELSE NoMatch, LAMBDA refs :
    IF refs.ok
    THEN With(ActionGroupAt(s, u, refs.end, "DELETE"), LAMBDA del :
         With(ActionGroupAt(s, u, del.end, "UPDATE"), LAMBDA upd :
           [ok |-> TRUE, columns |-> cols.text, ref_table |-> Sub(s, c, e - 1),
            ref_columns |-> refs.text, on_delete |-> del.value,
            on_update |-> upd.value, end |-> upd.end]))
    ELSE NoMatch))))))

\* (?:CONSTRAINT\s+\"?(\w+)\"?\s+)? at position i: the name and the position after
ConstraintNameAt(s, u, i) ==
  With(Kw(u, i, "CONSTRAINT"), LAMBDA a :
  With(IF At(s, a) = "\"" THEN a + 1 ELSE a, LAMBDA p :
  With(RunWord(s, p), LAMBDA e :
  With(IF At(s, e) = "\"" THEN e + 1 ELSE e, LAMBDA q :
    IF a # 0 /\ e > p /\ IsSpace(At(s, q))
    THEN [ok |-> TRUE, name |-> Sub(s, p, e - 1), end |-> SkipSpace(s, q)]
    ELSE NoMatch))))

\* the pattern of _apply_foreign_key_constraint at position i
TableForeignKeyAt(s, u, i) ==
  With(ConstraintNameAt(s, u, i), LAMBDA n :
  With(IF n.ok THEN ForeignKeyClauseAt(s, u, n.end) ELSE NoMatch, LAMBDA named :
    IF named.ok THEN [fk |-> named, name |-> Some(n.name)]
    ELSE [fk |-> ForeignKeyClauseAt(s, u, i), name |-> None]))

\* pattern.search of _apply_foreign_key_constraint: the leftmost match
SearchTableForeignKey(s, u) ==
  With(FirstIn(1, Len(s), LAMBDA k : TableForeignKeyAt(s, u, k).fk.ok), LAMBDA i :
    IF i = 0 THEN [fk |-> NoMatch, name |-> None] ELSE TableForeignKeyAt(s, u, i))

\* lines 348-358 and 429-438 with the referenced schema stored whatever it is
MakeForeignKey_any_schema(m, constraint_name) ==
  With(_parse_qualified_name(Remove(m.ref_table, "\"")), LAMBDA ref :
    ForeignKey(_parse_column_list(m.columns), Some(ref[1]),
               ref[2], _parse_column_list(m.ref_columns), constraint_name,
               m.on_delete, m.on_update))

\* lines 348-358 and 429-438: the ForeignKey built from a match
MakeForeignKey(m, constraint_name) ==
  With(_parse_qualified_name(Remove(m.ref_table, "\"")), LAMBDA ref :
    ForeignKey(_parse_column_list(m.columns),
               IF ref[1] # DEFAULT_SCHEMA THEN Some(ref[1]) ELSE None,
               ref[2], _parse_column_list(m.ref_columns), constraint_name,
               m.on_delete, m.on_update))

\* _apply_foreign_key_constraint
_apply_foreign_key_constraint(table, constraint) ==
  With(constraint, LAMBDA c : With(Upper(c), LAMBDA u :
  With(SearchTableForeignKey(c, u), LAMBDA m :
    IF m.fk.ok THEN add_foreign_key(table, MakeForeignKey(m.fk, m.name)) ELSE table)))

\* _apply_unique_constraint
_apply_unique_constraint(table, constraint) ==
  With(constraint, LAMBDA c :
  With(SearchKeyList(c, Upper(c), "UNIQUE", "", 1), LAMBDA m :
    IF m.ok THEN add_unique(table, _parse_column_list(m.text)) ELSE table))

\* _apply_table_constraint
_apply_table_constraint(table, constraint) ==
  With(constraint, LAMBDA c : With(Upper(c), LAMBDA upper :
    IF Contains(upper, "PRIMARY KEY") THEN _apply_primary_key_constraint(table, c)
    ELSE IF Contains(upper, "FOREIGN KEY") THEN _apply_foreign_key_constraint(table, c)
    ELSE IF Contains(upper, "UNIQUE") THEN _apply_unique_constraint(table, c)
    ELSE table))

-----------------------------------------------------------------------------
(* parser.py: CREATE TABLE statements                                      *)

\* the loop body with a table-level constraint applied where it stands
AddDefinition_applying_at_once(acc, definition0) ==
  With(Strip(definition0), LAMBDA definition :
    IF definition = "" THEN acc
    ELSE IF _is_table_constraint(definition)
    THEN <<_apply_table_constraint(acc[1], definition), acc[2]>>
    ELSE With(_parse_column(definition), LAMBDA column :
           IF column # None THEN <<add_column(acc[1], column[1]), acc[2]>> ELSE acc))

\* lines 70-81, the body of the loop over the definitions: acc is
\* <<table, table_constraints>>
AddDefinition(acc, definition0) ==
  With(Strip(definition0), LAMBDA definition :
    IF definition = "" THEN acc
    ELSE IF _is_table_constraint(definition)
    THEN <<acc[1], Append(acc[2], definition)>>
    ELSE With(_parse_column(definition), LAMBDA column :
           IF column # None THEN <<add_column(acc[1], column[1]), acc[2]>> ELSE acc))

\* lines 69-81: the loop over definitions[lo..hi], in order (the range is
\* halved as in SplitLoop)
RECURSIVE AddDefinitions(_, _, _, _)
AddDefinitions(acc, definitions, lo, hi) ==
  IF lo > hi THEN acc
  ELSE IF lo = hi THEN AddDefinition(acc, definitions[lo])
  ELSE With((lo + hi) \div 2, LAMBDA mid :
       With(AddDefinitions(acc, definitions, lo, mid), LAMBDA half :
         AddDefinitions(half, definitions, mid + 1, hi)))

\* lines 84-85: the loop over table_constraints[lo..hi], in order
RECURSIVE ApplyConstraints(_, _, _, _)
ApplyConstraints(table, table_constraints, lo, hi) ==
  IF lo > hi THEN table
  ELSE IF lo = hi THEN _apply_table_constraint(table, table_constraints[lo])
  ELSE With((lo + hi) \div 2, LAMBDA mid :
       With(ApplyConstraints(table, table_constraints, lo, mid), LAMBDA half :
         ApplyConstraints(half, table_constraints, mid + 1, hi)))

\* _parse_table
_parse_table(qualified_name, body) ==
  With(_parse_qualified_name(qualified_name), LAMBDA qn :
  With(_split_definitions(body), LAMBDA definitions :
  With(AddDefinitions(<<NewTable(qn[2], qn[1]), <<>>>>, definitions, 1, Len(definitions)), LAMBDA r :
    ApplyConstraints(r[1], r[2], 1, Len(r[2])))))

\* the end of the lazy group when the end of the text may stand for  \)\s*;
RECURSIVE BodyEnd_or_end_of_text(_, _)
BodyEnd_or_end_of_text(s, i) ==
  With(Find(s, ")", i), LAMBDA c :
    IF c = 0 THEN Len(s) + 1
    ELSE IF At(s, SkipSpace(s, c + 1)) = ";" THEN c
    ELSE BodyEnd_or_end_of_text(s, c + 1))

\* the end of the lazy group (.*?) that  \)\s*;  follows: the first position
\* c >= i that holds ")" with only white space between it and a ";", 0 if none
RECURSIVE BodyEnd(_, _)
BodyEnd(s, i) ==
  With(Find(s, ")", i), LAMBDA c :
    IF c = 0 THEN 0
    ELSE IF At(s, SkipSpace(s, c + 1)) = ";" THEN c
    ELSE BodyEnd(s, c + 1))

\* ([^\s(]+)\s*\(\s*(.*?)\)\s*;  at position i
NameAndBodyAt(s, i) ==
  With(RunNotIn(s, i, SpaceChars \cup {"("}), LAMBDA e :
  With(SkipSpace(s, e), LAMBDA o :
  With(SkipSpace(s, o + 1), LAMBDA b :
  With(IF i # 0 /\ e > i /\ At(s, o) = "(" THEN BodyEnd(s, b) ELSE 0, LAMBDA c :
    IF c # 0
    THEN [ok |-> TRUE, name |-> Sub(s, i, e - 1), body |-> Sub(s, b, c - 1),
          end |-> SkipSpace(s, c + 1) + 1]
    ELSE NoMatch))))

\* (?:IF\s+NOT\s+EXISTS\s+)?([^\s(]+)...  at position i: the optional group is
\* tried first and given up when the rest does not match after it
IfNotExistsAt(s, u, i) ==
  With(Kws(u, i, <<"IF", "NOT", "EXISTS">>), LAMBDA a :
  With(IF a = 0 THEN NoMatch ELSE NameAndBodyAt(s, a), LAMBDA with :
    IF with.ok THEN with ELSE NameAndBodyAt(s, i)))

\* the pattern of _parse_create_tables (lines 41-47) at position i
CreatePatternAt(s, u, i) ==
  With(Kw(u, i, "CREATE"), LAMBDA a :
  With(IF a = 0 THEN 0 ELSE Kw(u, a, "UNLOGGED"), LAMBDA b :
  With(IF b = 0 THEN 0 ELSE Kw(u, b, "TABLE"), LAMBDA t1 :
  With(IF t1 = 0 THEN NoMatch ELSE IfNotExistsAt(s, u, t1), LAMBDA with :
  With(IF a = 0 THEN 0 ELSE Kw(u, a, "TABLE"), LAMBDA t2 :
    IF with.ok THEN with
    ELSE IF t2 # 0 THEN IfNotExistsAt(s, u, t2)
    ELSE NoMatch)))))

\* the next match of pattern.finditer(sql) at or after position i
RECURSIVE NextCreate(_, _, _)
NextCreate(s, u, i) ==
  With(Find(u, "CREATE", i), LAMBDA j :
    IF j = 0 THEN NoMatch
    ELSE With(CreatePatternAt(s, u, j), LAMBDA m :
           IF m.ok THEN m ELSE NextCreate(s, u, j + 1)))

-----------------------------------------------------------------------------
(* parser.py: ALTER TABLE ... ADD CONSTRAINT clauses                       *)

\* ([^\s]+)\s+ADD\s+CONSTRAINT\s+  at position p: the table name and the
\* position after
AlterHeadFrom(s, u, p) ==
  With(RunNotIn(s, p, SpaceChars), LAMBDA e :
  With(IF p # 0 /\ e > p /\ IsSpace(At(s, e))
       THEN Kws(u, SkipSpace(s, e), <<"ADD", "CONSTRAINT">>) ELSE 0, LAMBDA a :
    IF a # 0 THEN [ok |-> TRUE, table |-> Sub(s, p, e - 1), end |-> a] ELSE NoMatch))

\* [^\s]+\s+ at position i (the constraint name of the PRIMARY KEY and UNIQUE
\* patterns): the position after, or 0
AnyNameAt(s, i) ==
  With(RunNotIn(s, i, SpaceChars), LAMBDA e :
    IF e > i /\ IsSpace(At(s, e)) THEN SkipSpace(s, e) ELSE 0)

\* \"?(\w+)\"?\s+ at position i (the constraint name of the FOREIGN KEY pattern)
WordNameAt(s, i) ==
  With(IF At(s, i) = "\"" THEN i + 1 ELSE i, LAMBDA p :
  With(RunWord(s, p), LAMBDA e :
  With(IF At(s, e) = "\"" THEN e + 1 ELSE e, LAMBDA q :
    IF e > p /\ IsSpace(At(s, q))
    THEN [ok |-> TRUE, name |-> Sub(s, p, e - 1), end |-> SkipSpace(s, q)]
    ELSE NoMatch)))

\* the rest of the PRIMARY KEY pattern (lines 390-395, kind "pk") or of the
\* UNIQUE pattern (442-447, kind "unique") after ADD\s+CONSTRAINT\s+
AlterKeyTailAt(s, u, i, kind) ==
  With(AnyNameAt(s, i), LAMBDA n :
  With(IF n = 0 THEN 0
       ELSE IF kind = "pk" THEN KwOpt(u, Kw(u, n, "PRIMARY"), "KEY")
       ELSE KwOpt(u, n, "UNIQUE"), LAMBDA a :
  With(IF a = 0 THEN NoMatch ELSE ParenGroupAt(s, a), LAMBDA g :
    IF g.ok THEN [ok |-> TRUE, columns |-> g.text, end |-> g.end] ELSE NoMatch)))

\* the rest of the FOREIGN KEY pattern (lines 407-415) after ADD\s+CONSTRAINT\s+
AlterForeignKeyTailAt(s, u, i) ==
  With(WordNameAt(s, i), LAMBDA w :
  With(IF w.ok THEN ForeignKeyClauseAt(s, u, w.end) ELSE NoMatch, LAMBDA fk :
    IF fk.ok THEN [ok |-> TRUE, fk |-> fk, name |-> w.name, end |-> fk.end]
    ELSE NoMatch))

\* the rest of an ALTER TABLE pattern after ADD\s+CONSTRAINT\s+, for the kind
\* "pk", "fk" or "unique"
AlterTailAt(s, u, i, kind) ==
  IF kind = "fk" THEN AlterForeignKeyTailAt(s, u, i) ELSE AlterKeyTailAt(s, u, i, kind)

\* one of the three patterns of _parse_alter_tables at position i: (?:ONLY\s+)?
\* is tried first and given up when the rest does not match after it
AlterPatternAt(s, u, i, kind) ==
  With(Kws(u, i, <<"ALTER", "TABLE">>), LAMBDA t :
  With(IF t = 0 THEN 0 ELSE Kw(u, t, "ONLY"), LAMBDA o :
  With(IF o = 0 THEN NoMatch ELSE AlterHeadFrom(s, u, o), LAMBDA h1 :
  With(IF h1.ok THEN AlterTailAt(s, u, h1.end, kind) ELSE NoMatch, LAMBDA r1 :
    IF r1.ok THEN [table |-> h1.table, m |-> r1]
    ELSE With(IF t = 0 THEN NoMatch ELSE AlterHeadFrom(s, u, t), LAMBDA h2 :
         With(IF h2.ok THEN AlterTailAt(s, u, h2.end, kind) ELSE NoMatch, LAMBDA r2 :
           IF r2.ok THEN [table |-> h2.table, m |-> r2]
           ELSE [m |-> NoMatch]))))))

\* the next match of <kind>_pattern.finditer(sql) at or after position i
RECURSIVE NextAlter(_, _, _, _)
NextAlter(s, u, i, kind) ==
  With(Find(u, "ALTER", i), LAMBDA j :
    IF j = 0 THEN [m |-> NoMatch]
    ELSE With(AlterPatternAt(s, u, j, kind), LAMBDA r :
           IF r.m.ok THEN r ELSE NextAlter(s, u, j + 1, kind)))

-----------------------------------------------------------------------------
(* parse_sql as a state machine.  pc is the loop parse_sql is in ("create":  *)
(* the for loop over _parse_create_tables; "alter_pk", "alter_fk",            *)
(* "alter_unique": the three finditer loops of _parse_alter_tables; "done":   *)
(* returned), pos the position the loop's finditer searches from, db the     *)
(* Database, bodies the (name, body) groups the CREATE TABLE pattern has     *)
(* matched so far, each with the definitions _parse_table has split the body *)
(* into.  stmts is the list of statements the input text was written from;  *)
(* the parser never reads it.                                                *)

\* the next CREATE TABLE statement that _parse_create_tables yields
CreateMatch == With(sql, LAMBDA s : NextCreate(s, Upper(s), pos))

\* one iteration of the loop of parse_sql over _parse_create_tables
CreateTable ==
  /\ pc = "create"
  /\ \E m \in {CreateMatch} :
       /\ m.ok
       /\ db' = add_table(db, _parse_table(m.name, m.body))
       /\ bodies' = Append(bodies, [name |-> m.name, body |-> m.body,
                                    definitions |-> _split_definitions(m.body)])
       /\ pos' = m.end
  /\ UNCHANGED <<stmts, sql, pc, options, out, cli>>

\* the loop over _parse_create_tables left before its iterator is exhausted
CreateDone_early ==
  /\ pc = "create"
  /\ pc' = "alter_pk"
  /\ pos' = 1
  /\ UNCHANGED <<stmts, sql, db, bodies, options, out, cli>>

\* the loop over _parse_create_tables ends; _parse_alter_tables starts
CreateDone ==
  /\ pc = "create"
  /\ ~CreateMatch.ok
  /\ pc' = "alter_pk"
  /\ pos' = 1
  /\ UNCHANGED <<stmts, sql, db, bodies, options, out, cli>>

\* the next match of one of the three patterns of _parse_alter_tables
AlterMatch(kind) == With(sql, LAMBDA s : NextAlter(s, Upper(s), pos, kind))

\* lines 401-404, 426-439, 453-456 without the `if table:` tests: a table
\* that does not exist is made for the constraint
ApplyAlter_creating(d, r, kind) ==
  With(_parse_qualified_name(Remove(r.table, "\"")), LAMBDA qn :
  With(get_table(d, qn[1], qn[2]), LAMBDA found :
  With(IF found = None THEN NewTable(qn[2], qn[1]) ELSE found[1], LAMBDA table :
    IF kind = "pk"
    THEN put_table(d, set_primary_key(table, _parse_column_list(r.m.columns)))
    ELSE IF kind = "fk"
    THEN put_table(d, add_foreign_key(table, MakeForeignKey(r.m.fk, Some(r.m.name))))
    ELSE put_table(d, add_unique(table, _parse_column_list(r.m.columns))))))

\* lines 401-404, 426-439, 453-456: the table of the match, when it exists,
\* gets the constraint
ApplyAlter(d, r, kind) ==
  With(_parse_qualified_name(Remove(r.table, "\"")), LAMBDA qn :
  With(get_table(d, qn[1], qn[2]), LAMBDA found :
    IF found = None THEN d
    ELSE IF kind = "pk"
    THEN put_table(d, set_primary_key(found[1], _parse_column_list(r.m.columns)))
    ELSE IF kind = "fk"
    THEN put_table(d, add_foreign_key(found[1], MakeForeignKey(r.m.fk, Some(r.m.name))))
    ELSE put_table(d, add_unique(found[1], _parse_column_list(r.m.columns)))))

\* one iteration of a finditer loop of _parse_alter_tables
AlterStep(kind) ==
  /\ \E r \in {AlterMatch(kind)} :
       /\ r.m.ok
       /\ db' = ApplyAlter(db, r, kind)
       /\ pos' = r.m.end
  /\ UNCHANGED <<stmts, sql, pc, bodies, options, out, cli>>

\* a finditer loop of _parse_alter_tables ends
AlterEnd(kind, next) ==
  /\ ~AlterMatch(kind).m.ok
  /\ pc' = next
  /\ pos' = 1
  /\ UNCHANGED <<stmts, sql, db, bodies, options, out, cli>>

AlterPrimaryKey == pc = "alter_pk" /\ AlterStep("pk")

AlterPrimaryKeyDone == pc = "alter_pk" /\ AlterEnd("pk", "alter_fk")

AlterForeignKey == pc = "alter_fk" /\ AlterStep("fk")

AlterForeignKeyDone == pc = "alter_fk" /\ AlterEnd("fk", "alter_unique")

AlterUnique == pc = "alter_unique" /\ AlterStep("unique")

AlterUniqueDone == pc = "alter_unique" /\ AlterEnd("unique", "done")

-----------------------------------------------------------------------------
(* renderer.py: the Mermaid ER diagram of a Database                       *)

\* RenderOptions(): the defaults of the dataclass
RenderOptions ==
  [mode |-> "normal", format |-> "mermaid",
   include_schemas |-> None, exclude_schemas |-> None,
   include_tables |-> None, exclude_tables |-> None,
   connected_only |-> FALSE, show_schema_prefix |-> TRUE,
   max_columns |-> 20, group_by_schema |-> FALSE, title |-> None]

\* Python's truth value of an optional list or string: None, [] and "" are false
Truthy(v) == v # None /\ Len(v[1]) # 0

\* Table.qualified_name
qualified_name(table) == table.schema \o "." \o table.name

\* Database.find_table_by_name: <<table>> or None
find_table_by_name(d, name, preferred_schema) ==
  With(IF Truthy(preferred_schema) THEN get_table(d, preferred_schema[1], name) ELSE None,
       LAMBDA preferred :
    IF preferred # None THEN preferred
    ELSE With(FirstIn(1, Len(d), LAMBDA k : TableIndex(d[k].tables, name) # 0), LAMBDA si :
           IF si = 0 THEN None ELSE Some(d[si].tables[TableIndex(d[si].tables, name)])))

\* re.match of the pattern "^" + regex + "$" that _matches_pattern writes from
\* the glob g (its characters: letters, digits, "_", ".", "*", "?"), from
\* position j of g against position i of the name n: "*" is ".*", "?" is ".",
\* "." matches no line break, "$" matches at the end and before a last line break
RECURSIVE GlobMatch(_, _, _, _)
GlobMatch(n, g, i, j) ==
  IF j > Len(g) THEN i > Len(n) \/ (i = Len(n) /\ At(n, i) = "\n")
  ELSE IF At(g, j) = "*"
  THEN GlobMatch(n, g, i, j + 1)
         \/ (i <= Len(n) /\ At(n, i) # "\n" /\ GlobMatch(n, g, i + 1, j))
  ELSE IF At(g, j) = "?"
  THEN i <= Len(n) /\ At(n, i) # "\n" /\ GlobMatch(n, g, i + 1, j + 1)
  ELSE At(n, i) = At(g, j) /\ GlobMatch(n, g, i + 1, j + 1)

\* _matches_pattern (re.IGNORECASE: both texts upper-cased)
_matches_pattern(name, pattern) == GlobMatch(Upper(name), Upper(pattern), 1, 1)

\* _matches_any_pattern
_matches_any_pattern(name, patterns) ==
  \E k \in 1..Len(patterns) : _matches_pattern(name, patterns[k])

\* _filter_tables
_filter_tables(d, o) ==
  SelectSeq(all_tables(d), LAMBDA table :
    /\ Truthy(o.include_schemas) =>
         \E k \in 1..Len(o.include_schemas[1]) : o.include_schemas[1][k] = table.schema
    /\ Truthy(o.exclude_schemas) =>
         \A k \in 1..Len(o.exclude_schemas[1]) : o.exclude_schemas[1][k] # table.schema
    /\ Truthy(o.include_tables) => _matches_any_pattern(table.name, o.include_tables[1])
    /\ Truthy(o.exclude_tables) => ~_matches_any_pattern(table.name, o.exclude_tables[1]))

\* the qualified names that _filter_connected_tables collects from one table
ConnectedNames(table, d) ==
  IF table.foreign_keys = <<>> THEN {}
  ELSE {qualified_name(table)}
         \cup { fk.ref_schema[1] \o "." \o fk.ref_table :
                  fk \in { table.foreign_keys[k] : k \in { j \in 1..Len(table.foreign_keys) :
                             Truthy(table.foreign_keys[j].ref_schema) } } }
         \cup { qualified_name(t[1]) :
                  t \in { find_table_by_name(d, table.foreign_keys[k].ref_table, Some(table.schema)) :
                            k \in { j \in 1..Len(table.foreign_keys) :
                                      ~Truthy(table.foreign_keys[j].ref_schema) } } \ {None} }

\* _filter_connected_tables
_filter_connected_tables(tables, d) ==
  With(UNION { ConnectedNames(tables[k], d) : k \in 1..Len(tables) }, LAMBDA connected_names :
    SelectSeq(tables, LAMBDA t : qualified_name(t) \in connected_names))

\* _sanitize_name: re.sub(r"[^a-zA-Z0-9_]", "_", name), and "_" before a
\* leading digit
_sanitize_name(name) ==
  With(Translate(name, [c \in Letters(name) \ WordChars |-> "_"]), LAMBDA n :
    IF n # "" /\ At(n, 1) \in Letters(Digits) THEN "_" \o n ELSE n)

\* _sanitize_identifier
_sanitize_identifier(table, o) ==
  IF o.show_schema_prefix /\ table.schema # "public"
  THEN _sanitize_name(table.schema \o "__" \o table.name)
  ELSE _sanitize_name(table.name)

\* end of the longest run of digits from i: a greedy \d+ (i itself when no
\* digit stands at i)
RunDigits(s, i) ==
  IF i > Len(s) THEN i ELSE FirstIn(i, Len(s) + 1, LAMBDA k : At(s, k) \notin Letters(Digits))

\* the match of \(\d+(?:,\s*\d+)?\) at position i: the position after it, or 0
SizeAt(s, i) ==
  IF At(s, i) # "(" \/ RunDigits(s, i + 1) = i + 1 THEN 0
  ELSE With(RunDigits(s, i + 1), LAMBDA j :
         IF At(s, j) = ")" THEN j + 1
         ELSE IF At(s, j) # "," THEN 0
         ELSE With(SkipSpace(s, j + 1), LAMBDA k :
                IF RunDigits(s, k) # k /\ At(s, RunDigits(s, k)) = ")"
                THEN RunDigits(s, k) + 1 ELSE 0))

\* re.sub(r"\(\d+(?:,\s*\d+)?\)", "", s) from position i
RECURSIVE RemoveSizes(_, _)
RemoveSizes(s, i) ==
  IF i > Len(s) THEN ""
  ELSE IF SizeAt(s, i) # 0 THEN RemoveSizes(s, SizeAt(s, i))
  ELSE At(s, i) \o RemoveSizes(s, i + 1)

\* the type_map of _simplify_type, in the order of the dict
simplify_type_map ==
  << <<"character varying", "varchar">>,
     <<"character", "char">>,
     <<"timestamp without time zone", "timestamp">>,
     <<"timestamp with time zone", "timestamptz">>,
     <<"time without time zone", "time">>,
     <<"time with time zone", "timetz">>,
     <<"double precision", "float8">> >>

\* _simplify_type
_simplify_type(data_type) ==
  With(RemoveSizes(data_type, 1), LAMBDA simplified :
  With(Lower(simplified), LAMBDA lower :
  With(FirstIn(1, Len(simplify_type_map), LAMBDA k : StartsWith(lower, simplify_type_map[k][1])),
       LAMBDA k :
    IF k # 0 THEN simplify_type_map[k][2] ELSE simplified)))

\* ",".join(xs)
RECURSIVE JoinWith(_, _)
JoinWith(xs, sep) ==
  IF xs = <<>> THEN ""
  ELSE IF Len(xs) = 1 THEN xs[1]
  ELSE xs[1] \o sep \o JoinWith(Tail(xs), sep)

\* _render_column
_render_column(col, o) ==
  With(Translate(IF o.mode = "full" THEN col.data_type ELSE _simplify_type(col.data_type),
                 " " :> "_"), LAMBDA type_str :
  With((IF col.is_primary_key THEN <<"PK">> ELSE <<>>)
         \o (IF col.is_foreign_key THEN <<"FK">> ELSE <<>>), LAMBDA flags :
    IF flags # <<>>
    THEN type_str \o " " \o _sanitize_name(col.name) \o " " \o JoinWith(flags, ",")
    ELSE type_str \o " " \o _sanitize_name(col.name)))

\* _select_columns
_select_columns(table, o) ==
  IF o.mode = "compact"
  THEN SelectSeq(table.columns, LAMBDA c : c.is_primary_key \/ c.is_foreign_key)
  ELSE IF o.max_columns > 0 /\ Len(table.columns) > o.max_columns
  THEN With(SelectSeq(table.columns, LAMBDA c : c.is_primary_key \/ c.is_foreign_key), LAMBDA pk_fk :
       With(SelectSeq(table.columns, LAMBDA c : ~c.is_primary_key /\ ~c.is_foreign_key), LAMBDA other :
         pk_fk \o SubSeq(other, 1,
                         IF o.max_columns - Len(pk_fk) > Len(other) THEN Len(other)
                         ELSE IF o.max_columns - Len(pk_fk) < 0 THEN 0
                         ELSE o.max_columns - Len(pk_fk))))
  ELSE table.columns

\* str(n) for a natural number n
RECURSIVE Str(_)
Str(n) == IF n < 10 THEN SubSeq(Digits, n + 1, n + 1) ELSE Str(n \div 10) \o Str(n % 10)

\* _render_table: the lines of one table
_render_table(table, o) ==
  With(_select_columns(table, o), LAMBDA columns :
    <<"    " \o _sanitize_identifier(table, o) \o " {">>
      \o [k \in 1..Len(columns) |-> "        " \o _render_column(columns[k], o)]
      \o (IF o.max_columns > 0 /\ Len(table.columns) > o.max_columns
          THEN <<"        %% ... " \o Str(Len(table.columns) - o.max_columns) \o " more columns">>
          ELSE <<>>)
      \o <<"    }">>)

\* the key of `seen` without the label
rel_key_without_label(source_id, target_id, label) == <<source_id, target_id>>

\* line 340: rel_key
rel_key(source_id, target_id, label) == <<source_id, target_id, label>>

\* one iteration of the inner loop of _collect_relationships, up to rel_key:
\* whether the foreign key passes the test of line 324, its key and its line
Relationship(table, fk, tables, d, o) ==
  With(_sanitize_identifier(table, o), LAMBDA source_id :
  With(IF Truthy(fk.ref_schema) THEN fk.ref_schema[1] \o "." \o fk.ref_table
       ELSE With(find_table_by_name(d, fk.ref_table, Some(table.schema)), LAMBDA ref_table :
              IF ref_table # None THEN qualified_name(ref_table[1])
              ELSE table.schema \o "." \o fk.ref_table), LAMBDA target_qualified :
  With(find_table_by_name(d, fk.ref_table,
                          IF Truthy(fk.ref_schema) THEN fk.ref_schema ELSE Some(table.schema)),
       LAMBDA target_table :
  With(IF target_table # None THEN _sanitize_identifier(target_table[1], o)
       ELSE _sanitize_name(fk.ref_table), LAMBDA target_id :
  With(JoinWith(fk.columns, ","), LAMBDA label :
    [shown |-> (\E k \in 1..Len(tables) : qualified_name(tables[k]) = target_qualified)
                 \/ (\E k \in 1..Len(tables) : tables[k].name = fk.ref_table),
     key |-> rel_key(source_id, target_id, label),
     line |-> target_id \o " ||--o{ " \o source_id \o " : \"" \o label \o "\""])))))

\* the iterations of the two loops of _collect_relationships, in order
RECURSIVE Relationships(_, _, _, _)
Relationships(rest, tables, d, o) ==
  IF rest = <<>> THEN <<>>
  ELSE [k \in 1..Len(Head(rest).foreign_keys) |->
          Relationship(Head(rest), Head(rest).foreign_keys[k], tables, d, o)]
         \o Relationships(Tail(rest), tables, d, o)

\* lines 341-345 over the iterations from the k-th on: `seen` and the lines appended
RECURSIVE CollectFrom(_, _, _)
CollectFrom(rels, k, seen) ==
  IF k > Len(rels) THEN <<>>
  ELSE IF ~rels[k].shown \/ rels[k].key \in seen THEN CollectFrom(rels, k + 1, seen)
  ELSE <<rels[k].line>> \o CollectFrom(rels, k + 1, seen \cup {rels[k].key})

\* _collect_relationships
_collect_relationships(tables, d, o) ==
  CollectFrom(Relationships(tables, tables, d, o), 1, {})

\* the characters of the inputs in the order of their code points (a string
\* of the model cannot hold a grave accent; no input has one)
CodeOrder ==
  "\t\n !\"#$%&'()*+,-./0123456789:;<=>?@ABCDEFGHIJKLMNOPQRSTUVWXYZ[\\]^_abcdefghijklmnopqrstuvwxyz{|}~"

\* a < b for two str
StrLess(a, b) ==
  With(FirstIn(1, IF Len(a) < Len(b) THEN Len(a) ELSE Len(b), LAMBDA k : At(a, k) # At(b, k)),
       LAMBDA k :
    IF k = 0 THEN Len(a) < Len(b)
    ELSE Find(CodeOrder, At(a, k), 1) < Find(CodeOrder, At(b, k), 1))

\* sorted(tables, key=lambda t: (t.schema, t.name)): a stable sort
RECURSIVE SortTables(_)
SortTables(tables) ==
  IF tables = <<>> THEN <<>>
  ELSE With(SortTables(Tail(tables)), LAMBDA sorted :
       With(FirstIn(1, Len(sorted), LAMBDA k :
              ~(\/ StrLess(sorted[k].schema, Head(tables).schema)
                \/ (/\ sorted[k].schema = Head(tables).schema
                    /\ StrLess(sorted[k].name, Head(tables).name)))), LAMBDA k :
         IF k = 0 THEN sorted \o <<Head(tables)>>
         ELSE SubSeq(sorted, 1, k - 1) \o <<Head(tables)>> \o SubSeq(sorted, k, Len(sorted))))

\* lines 83-97: the lines of the tables from the k-th of the sorted list on,
\* under a comment line per schema and with an empty line after each schema
\* when grouped
RECURSIVE TableLines(_, _, _)
TableLines(sorted, k, o) ==
  IF k > Len(sorted) THEN <<>>
  ELSE (IF o.group_by_schema /\ (k = 1 \/ sorted[k - 1].schema # sorted[k].schema)
        THEN <<"    %% Schema: " \o sorted[k].schema>> ELSE <<>>)
         \o _render_table(sorted[k], o)
         \o (IF o.group_by_schema /\ (k = Len(sorted) \/ sorted[k + 1].schema # sorted[k].schema)
             THEN <<"">> ELSE <<>>)
         \o TableLines(sorted, k + 1, o)

\* _wrap_output; the fence of a markdown code block, three grave accents, is
\* written as three apostrophes (a string of the model cannot hold a grave
\* accent)
_wrap_output(content, o) ==
  IF o.format = "markdown" THEN "'''mermaid\n" \o content \o "\n'''" ELSE content

\* render_mermaid
render_mermaid(d, o) ==
  With(_filter_tables(d, o), LAMBDA filtered :
    IF filtered = <<>> THEN _wrap_output("erDiagram\n    %% No tables to display", o)
    ELSE With(IF o.connected_only THEN _filter_connected_tables(filtered, d) ELSE filtered,
              LAMBDA tables :
      IF tables = <<>>
      THEN _wrap_output("erDiagram\n    %% No connected tables to display", o)
      ELSE _wrap_output(
             JoinWith((IF Truthy(o.title) THEN <<"---", "title: " \o o.title[1], "---">> ELSE <<>>)
                        \o <<"erDiagram">>
                        \o TableLines(SortTables(tables), 1, o)
                        \o <<"", "    %% Relationships">>
                        \o With(_collect_relationships(tables, d, o), LAMBDA relationships :
                             [k \in 1..Len(relationships) |-> "    " \o relationships[k]]),
                      "\n"), o)))

\* the option settings of TestFiltering and TestLayoutOptions, and settings
\* that filter by the names of the reference inputs
OptionPool ==
  { RenderOptions,
    [RenderOptions EXCEPT !.exclude_schemas = Some(<<"auth">>)],
    [RenderOptions EXCEPT !.include_schemas = Some(<<"public">>), !.show_schema_prefix = FALSE],
    [RenderOptions EXCEPT !.include_tables = Some(<<"posts">>)],
    [RenderOptions EXCEPT !.exclude_tables = Some(<<"USER*", "?">>)],
    [RenderOptions EXCEPT !.connected_only = TRUE, !.mode = "full", !.max_columns = 0],
    [RenderOptions EXCEPT !.mode = "compact", !.format = "markdown", !.title = Some("My Database"),
                          !.group_by_schema = TRUE, !.max_columns = 1],
    [RenderOptions EXCEPT !.max_columns = 1],
    [RenderOptions EXCEPT !.mode = "compact", !.max_columns = 0],
    [RenderOptions EXCEPT !.show_schema_prefix = FALSE] }

\* render_mermaid(db, options) on the parsed database
Render ==
  /\ pc = "done"
  /\ \E o \in OptionPool :
       /\ options' = o
       /\ out' = render_mermaid(db, o)
  /\ pc' = "rendered"
  /\ UNCHANGED <<stmts, sql, pos, db, bodies, cli>>

Next ==
  \/ CreateTable
  \/ CreateDone
  \/ AlterPrimaryKey
  \/ AlterPrimaryKeyDone
  \/ AlterForeignKey
  \/ AlterForeignKeyDone
  \/ AlterUnique
  \/ AlterUniqueDone
  \/ Render

-----------------------------------------------------------------------------
(* The inputs.  An input text is written from a list of statements, and a  *)
(* CREATE TABLE statement from a list of definitions.  Beside its text, a  *)
(* statement or definition records what it declares (the table, the column,*)
(* the default, the key columns, the reference), so that what parse_sql    *)
(* recovers from the text can be compared with what was written.           *)

MaxStmts == 2

MaxDefs == 2

MaxAlters == 2

\* the sequences over the set S of the lengths lo..hi
SeqsOf(S, lo, hi) == UNION {[1..n -> S] : n \in lo..hi}

\* a column definition: its text, the column's name, the declared default
ColDef(text, col, default) ==
  [text |-> text, col |-> col, default |-> default, ref |-> None, pk |-> <<>>, fk |-> None]

\* a column definition with an inline REFERENCES
RefDef(text, col, ref_table, ref_columns, on_delete) ==
  [text |-> text, col |-> col, default |-> None,
   ref |-> Some([ref_table |-> ref_table, ref_columns |-> ref_columns, on_delete |-> on_delete]),
   pk |-> <<>>, fk |-> None]

\* a table-level PRIMARY KEY clause and the columns it names
PkDef(text, cols) ==
  [text |-> text, col |-> "", default |-> None, ref |-> None, pk |-> cols, fk |-> None]

\* what a FOREIGN KEY constraint declares
FkDecl(columns, ref_schema, ref_table, ref_columns, on_delete, on_update) ==
  [columns |-> columns, ref_schema |-> ref_schema, ref_table |-> ref_table,
   ref_columns |-> ref_columns, on_delete |-> on_delete, on_update |-> on_update]

\* a table-level FOREIGN KEY clause
FkDef(text, decl) ==
  [text |-> text, col |-> "", default |-> None, ref |-> None, pk |-> <<>>, fk |-> Some(decl)]

\* any other table-level clause (CHECK, UNIQUE)
OtherDef(text) ==
  [text |-> text, col |-> "", default |-> None, ref |-> None, pk |-> <<>>, fk |-> None]

\* the texts joined by sep
RECURSIVE Join(_, _)
Join(texts, sep) ==
  IF texts = <<>> THEN ""
  ELSE IF Len(texts) = 1 THEN texts[1]
  ELSE texts[1] \o sep \o Join(Tail(texts), sep)

DefTexts(defs) == [k \in 1..Len(defs) |-> defs[k].text]

BodyText(defs) == Join(DefTexts(defs), ", ")

\* a CREATE TABLE statement: head, the name as written, "(", the definitions,
\* ")", the text between the closing parenthesis and the ";"
Create(head, qname, schema, name, defs, tail) ==
  [kind |-> "create", schema |-> schema, name |-> name, defs |-> defs, tail |-> tail,
   text |-> head \o qname \o " (" \o BodyText(defs) \o ")" \o tail \o ";"]

\* ALTER TABLE ... ADD CONSTRAINT ... PRIMARY KEY / UNIQUE
AlterKey(kind, text, schema, name, columns) ==
  [kind |-> kind, text |-> text, schema |-> schema, name |-> name, columns |-> columns]

\* ALTER TABLE ... ADD CONSTRAINT ... FOREIGN KEY
AlterFk(text, schema, name, decl) ==
  [kind |-> "alter_fk", text |-> text, schema |-> schema, name |-> name, fk |-> decl]

StmtTexts(ss) == [k \in 1..Len(ss) |-> ss[k].text]

\* the input text of a list of statements, one statement per line
SqlText(ss) == Join(StmtTexts(ss), "\n")

\* the CREATE TABLE heads and names of TestSchemaQualifiedNames and of
\* test_create_table_if_not_exists, with what each name declares
NamePool ==
  LET defs == <<ColDef("id serial PRIMARY KEY", "id", None), ColDef("name text", "name", None)>>
  IN  { Create("CREATE TABLE ", "users", "public", "users", defs, ""),
        Create("CREATE TABLE ", "public.users", "public", "users", defs, ""),
        Create("create table if not exists ", "\"Users\"", "public", "Users", defs, ""),
        Create("CREATE UNLOGGED TABLE ", "auth.users", "auth", "users", defs, ""),
        Create("CREATE TABLE ", "\"auth\".\"users\"", "auth", "users", defs, ""),
        Create("CREATE TABLE IF NOT EXISTS ", "auth.\"orders\"", "auth", "orders", defs, "") }

NameInputs == SeqsOf(NamePool, 1, MaxStmts)

\* the column definitions and clauses of the tests of test_parser.py
\* (test_default_values, test_string_literal_with_escaped_quotes,
\* test_string_literal_with_semicolon_paren, test_nested_parentheses_in_check,
\* test_inline_references) and of README-style schemas
DefPool ==
  { ColDef("id serial PRIMARY KEY", "id", None),
    ColDef("n numeric(10,2) NOT NULL", "n", None),
    OtherDef("CHECK (age >= 0 AND age <= 150)"),
    ColDef("p text DEFAULT 'abc);def'", "p", Some("'abc);def'")),
    ColDef("s text DEFAULT 'it''s, a test'", "s", Some("'it''s, a test'")),
    ColDef("w text DEFAULT 'x\\'', y'", "w", Some("'x\\'', y'")),
    ColDef("b timestamp DEFAULT now()", "b", Some("now()")),
    ColDef("a boolean DEFAULT false", "a", Some("false")),
    ColDef("e int DEFAULT (1+2)", "e", Some("(1+2)")),
    ColDef("\"x,y\" int", "x,y", None),
    RefDef("u integer REFERENCES users(id) ON DELETE CASCADE", "u", "users", <<"id">>, Some("CASCADE")) }

BodyInputs ==
  { <<Create("CREATE TABLE ", "t", "public", "t", defs, "")>> : defs \in SeqsOf(DefPool, 1, MaxDefs) }

\* what may stand between the closing parenthesis of the column list and the
\* ";": nothing, or one of the clauses PostgreSQL allows there
TailPool == {"", " WITH (fillfactor=70)", " INHERITS (p)", " PARTITION BY RANGE (x)"}

\* three-definition bodies: the one of test_nested_parentheses_in_check with
\* the CHECK as a clause of its own between two columns, and one with a
\* literal between a column and a key clause
ShapePool ==
  { <<ColDef("id serial PRIMARY KEY", "id", None),
      OtherDef("CHECK (age >= 0 AND age <= 150)"),
      ColDef("price numeric(10,2) DEFAULT 0", "price", Some("0"))>>,
    <<ColDef("id int", "id", None),
      ColDef("note text DEFAULT 'it''s a test'", "note", Some("'it''s a test'")),
      PkDef("PRIMARY KEY (id)", <<"id">>)>> }

ShapeInputs ==
  { <<Create("CREATE TABLE ", "m", "public", "m", defs, tail)>> : defs \in ShapePool, tail \in TailPool }

\* the tables of test_table_level_primary_key,
\* test_table_level_foreign_key_with_actions, test_alter_table_primary_key and
\* test_schema_qualified_reference, and a key that names an absent column
KeyPool ==
  { Create("CREATE TABLE ", "t", "public", "t",
           <<ColDef("post_id integer NOT NULL", "post_id", None),
             ColDef("tag_id integer NOT NULL", "tag_id", None),
             PkDef("PRIMARY KEY (post_id, tag_id)", <<"post_id", "tag_id">>)>>, ""),
    Create("CREATE TABLE ", "posts", "public", "posts",
           <<ColDef("id serial PRIMARY KEY", "id", None),
             ColDef("user_id integer NOT NULL", "user_id", None),
             FkDef("FOREIGN KEY (user_id) REFERENCES users(id) ON DELETE CASCADE ON UPDATE SET NULL",
                   FkDecl(<<"user_id">>, None, "users", <<"id">>, Some("CASCADE"), Some("SET NULL")))>>, ""),
    Create("CREATE TABLE ", "t", "public", "t",
           <<ColDef("id serial", "id", None), ColDef("name text", "name", None)>>, ""),
    Create("CREATE TABLE ", "t", "public", "t",
           <<ColDef("id serial", "id", None),
             PkDef("PRIMARY KEY (id, missing)", <<"id", "missing">>)>>, ""),
    Create("CREATE TABLE ", "billing.invoices", "billing", "invoices",
           <<ColDef("id serial PRIMARY KEY", "id", None),
             ColDef("user_id integer NOT NULL", "user_id", None),
             FkDef("CONSTRAINT inv_fk FOREIGN KEY (user_id) REFERENCES auth.users(id) ON DELETE SET NULL ON UPDATE CASCADE",
                   FkDecl(<<"user_id">>, Some("auth"), "users", <<"id">>, Some("SET NULL"), Some("CASCADE")))>>, "") }

\* the ALTER TABLE statements of TestAlterTable, and variations in case, ONLY,
\* qualification, quoting and line breaks
AlterPool ==
  { AlterKey("alter_pk", "ALTER TABLE t ADD CONSTRAINT t_pkey PRIMARY KEY (id);",
             "public", "t", <<"id">>),
    AlterKey("alter_pk", "alter table only public.\"t\"\n    add constraint pk primary key (name, id);",
             "public", "t", <<"name", "id">>),
    AlterKey("alter_pk", "ALTER TABLE missing ADD CONSTRAINT m_pkey PRIMARY KEY (id);",
             "public", "missing", <<"id">>),
    AlterFk("ALTER TABLE posts ADD CONSTRAINT posts_user_fk\n    FOREIGN KEY (user_id) REFERENCES users(id) ON DELETE CASCADE ON UPDATE SET NULL;",
            "public", "posts",
            FkDecl(<<"user_id">>, None, "users", <<"id">>, Some("CASCADE"), Some("SET NULL"))),
    AlterKey("alter_unique", "ALTER TABLE t ADD CONSTRAINT t_name_key UNIQUE (name);",
             "public", "t", <<"name">>) }

KeyInputs ==
  { <<c>> \o alters : c \in KeyPool, alters \in SeqsOf(AlterPool, 0, MaxAlters) }

\* ALTER TABLE statements, one of each kind, against tables that no CREATE
\* TABLE statement of the input creates
OrphanInputs ==
  { <<c, a>> : c \in KeyPool, a \in
    { AlterKey("alter_pk", "ALTER TABLE ghost ADD CONSTRAINT ghost_pkey PRIMARY KEY (id);",
               "public", "ghost", <<"id">>),
      AlterFk("ALTER TABLE ONLY audit.ghost ADD CONSTRAINT ghost_fk FOREIGN KEY (id) REFERENCES t(id);",
              "audit", "ghost", FkDecl(<<"id">>, None, "t", <<"id">>, None, None)),
      AlterKey("alter_unique", "ALTER TABLE billing.ghost ADD CONSTRAINT ghost_key UNIQUE (id);",
               "billing", "ghost", <<"id">>) } }

\* inputs whose ALTER TABLE text stands before the CREATE TABLE text of its
\* table, or between two CREATE TABLE statements
OrderInputs ==
  LET t == Create("CREATE TABLE ", "t", "public", "t",
                  <<ColDef("id serial", "id", None), ColDef("name text", "name", None)>>, "")
      posts == Create("CREATE TABLE ", "posts", "public", "posts",
                      <<ColDef("id serial PRIMARY KEY", "id", None),
                        ColDef("user_id integer NOT NULL", "user_id", None)>>, "")
      pk == AlterKey("alter_pk", "ALTER TABLE ONLY t ADD CONSTRAINT t_pkey PRIMARY KEY (id);",
                     "public", "t", <<"id">>)
      uq == AlterKey("alter_unique", "ALTER TABLE t ADD CONSTRAINT t_name_key UNIQUE (name);",
                     "public", "t", <<"name">>)
      fk == AlterFk("ALTER TABLE posts ADD CONSTRAINT posts_user_fk FOREIGN KEY (user_id) REFERENCES t(id);",
                    "public", "posts", FkDecl(<<"user_id">>, None, "t", <<"id">>, None, None))
  IN  { <<pk, t>>, <<uq, t>>, <<fk, posts>>, <<pk, uq, t>>, <<fk, pk, t, posts>>,
        <<t, fk, posts>>, <<posts, pk, uq, t>>, <<uq, fk, pk, posts, t>> }

\* a column definition "c <raw type>": spelled is the verbose spelling the
\* raw type was written from ("" when it is none of the table), suffix what
\* was written after it, short the canonical form the table gives for spelled
\* (for a type outside the table: the expected type as a whole)
TypeDef(raw, spelled, suffix, short) ==
  [text |-> "c " \o raw, col |-> "c", default |-> None, ref |-> None, pk |-> <<>>, fk |-> None,
   raw |-> raw, spelled |-> spelled, suffix |-> suffix, short |-> short]

\* one-column tables over the verbose spellings of test_column_types_normalized
\* and the rest of the table, in three letter cases, with one blank or a run
\* of white space between the words, bare or with a suffix; and types outside
\* the table
TypeInputs ==
  LET Cased(L, case) == IF case = "upper" THEN L
                        ELSE IF case = "lower" THEN Lower(L)
                        ELSE Sub(L, 1, 1) \o Lower(From(L, 2))
      Spelled(L, case, gap) == Translate(Cased(L, case), " " :> gap)
      known == { TypeDef(Spelled(type_map[k][1], case, gap) \o S, type_map[k][1], S, type_map[k][2]) :
                   k \in 1..Len(type_map), case \in {"upper", "lower", "mixed"},
                   gap \in {" ", "  \t"}, S \in {"", "(100)", "[]"} }
      other == { TypeDef("NUMERIC(10, 2)", "", "", "numeric(10, 2)"),
                 TypeDef("Text", "", "", "text"),
                 TypeDef("JSONB[]", "", "", "jsonb[]"),
                 TypeDef("timestamp", "", "", "timestamp"),
                 TypeDef("Bit  Varying(8)", "", "", "bit varying(8)"),
                 TypeDef("INTEGER ARRAY", "INTEGER", " ARRAY", "int") }
  IN  { <<Create("CREATE TABLE ", "t", "public", "t", <<d>>, "")>> : d \in known \cup other }

\* schemas with a table users in public and in auth, and tables that refer
\* to one of them: unqualified, with public., with auth. and quoted (the
\* references of test_schema_qualified_reference), from a table of public or
\* of auth, in the CREATE TABLE body or by ALTER TABLE; a table with two
\* foreign keys to one table (test_multiple_fks_between_same_tables), a
\* foreign key declared twice, and a two-column foreign key
RefInputs ==
  LET id == ColDef("id serial PRIMARY KEY", "id", None)
      users == Create("CREATE TABLE ", "users", "public", "users", <<id>>, "")
      auth_users == Create("CREATE TABLE ", "auth.users", "auth", "users", <<id>>, "")
      Fk(col, ref, ref_schema) ==
        FkDef("FOREIGN KEY (" \o col \o ") REFERENCES " \o ref \o "(id)",
              FkDecl(<<col>>, ref_schema, "users", <<"id">>, None, None))
      Posts(qname, schema, ref, ref_schema) ==
        Create("CREATE TABLE ", qname, schema, "posts",
               <<id, ColDef("user_id integer", "user_id", None), Fk("user_id", ref, ref_schema)>>, "")
      AlterPosts(ref, ref_schema) ==
        AlterFk("ALTER TABLE ONLY posts ADD CONSTRAINT posts_user_fk FOREIGN KEY (user_id) REFERENCES "
                  \o ref \o "(id);",
                "public", "posts", FkDecl(<<"user_id">>, ref_schema, "users", <<"id">>, None, None))
      refs == { <<"users", None>>, <<"public.users", None>>, <<"auth.users", Some("auth")>>,
                <<"\"auth\".\"users\"", Some("auth")>> }
      messages == Create("CREATE TABLE ", "messages", "public", "messages",
                         <<id, ColDef("sender_id integer", "sender_id", None),
                           ColDef("receiver_id integer", "receiver_id", None),
                           Fk("sender_id", "users", None), Fk("receiver_id", "users", None)>>, "")
      pairs == Create("CREATE TABLE ", "pairs", "public", "pairs",
                      <<ColDef("a int", "a", None), ColDef("b int", "b", None),
                        PkDef("PRIMARY KEY (a, b)", <<"a", "b">>)>>, "")
      links == Create("CREATE TABLE ", "links", "public", "links",
                      <<id, ColDef("a int", "a", None), ColDef("b int", "b", None),
                        FkDef("FOREIGN KEY (a, b) REFERENCES pairs(a, b)",
                              FkDecl(<<"a", "b">>, None, "pairs", <<"a", "b">>, None, None))>>, "")
  IN  { <<users, auth_users, Posts("posts", "public", r[1], r[2])>> : r \in refs }
        \cup { <<auth_users, users, Posts("auth.posts", "auth", r[1], r[2])>> : r \in refs }
        \cup { <<users, auth_users, Posts("posts", "public", "users", None), AlterPosts(r[1], r[2])>> : r \in refs }
        \cup { <<users, messages>>, <<pairs, links>>, <<Posts("posts", "public", "auth.users", Some("auth")), users>> }

\* tables whose FOREIGN KEY clause stands before, between or after the column
\* definitions, bare or named by CONSTRAINT, or names a column the table does
\* not have or has twice; tables with columns whose names begin with the
\* letters of a constraint keyword; and bodies with no definition at all,
\* with nothing between two commas, and with nothing after the last comma
ClauseInputs ==
  LET id == ColDef("id serial PRIMARY KEY", "id", None)
      user_id == ColDef("user_id integer", "user_id", None)
      decl == FkDecl(<<"user_id">>, None, "users", <<"id">>, None, None)
      fk == FkDef("FOREIGN KEY (user_id) REFERENCES users(id)", decl)
      named == FkDef("CONSTRAINT posts_user_fk FOREIGN KEY (user_id) REFERENCES users(id)", decl)
      ghost == FkDef("FOREIGN KEY (ghost) REFERENCES users(id)",
                     FkDecl(<<"ghost">>, None, "users", <<"id">>, None, None))
      Posts(defs) == <<Create("CREATE TABLE ", "posts", "public", "posts", defs, "")>>
  IN  { Posts(<<fk, id, user_id>>), Posts(<<id, fk, user_id>>), Posts(<<id, user_id, fk>>),
        Posts(<<named, id, user_id>>), Posts(<<id, user_id, ghost>>),
        Posts(<<user_id, user_id, fk>>),
        Posts(<<id, ColDef("unique_id integer", "unique_id", None)>>),
        Posts(<<ColDef("check_date date", "check_date", None), id>>),
        Posts(<<id, ColDef("constraint_type text", "constraint_type", None), user_id>>),
        Posts(<<id, ColDef("\"unique\" int", "unique", None),
                ColDef("primary_key_id int", "primary_key_id", None)>>),
        Posts(<<>>), Posts(<<id, OtherDef(""), user_id>>),
        <<[Posts(<<id>>)[1] EXCEPT !.text = "CREATE TABLE posts (id serial PRIMARY KEY,);"]>> }

Inputs ==
  NameInputs \cup BodyInputs \cup ShapeInputs \cup KeyInputs \cup OrphanInputs
    \cup OrderInputs \cup TypeInputs \cup RefInputs \cup ClauseInputs

Init ==
  /\ stmts \in Inputs
  /\ sql = SqlText(stmts)
  /\ pc = "create"
  /\ pos = 1
  /\ db = EmptyDatabase
  /\ bodies = <<>>
  /\ options = RenderOptions
  /\ out = ""
  /\ cli = None

Spec == Init /\ [][Next]_vars

-----------------------------------------------------------------------------
(* Inputs that are not lists of well-formed statements: truncated and       *)
(* garbled DDL, other SQL, blank text, nothing at all.                      *)

MaxPieces == 2

\* a piece of text that is no well-formed CREATE TABLE or ALTER TABLE
\* statement; opens: it starts a CREATE TABLE column list and never closes
\* it; closes: it holds a ")" that a ";" follows
Piece(kind, text, opens, closes) ==
  [kind |-> kind, text |-> text, schema |-> "", name |-> "", opens |-> opens, closes |-> closes]

\* the texts of test_empty_sql and test_sql_without_tables, truncated and
\* garbled CREATE TABLE statements, and well-formed statements around them
LooseInputs ==
  LET users == Create("CREATE TABLE ", "users", "public", "users",
                      <<ColDef("id serial PRIMARY KEY", "id", None), ColDef("name text", "name", None)>>, "")
      pool == { users,
                Piece("malformed", "CREATE TABLE bad (id int, note text", TRUE, FALSE),
                Piece("malformed", "CREATE TABLE bad (id int)", TRUE, FALSE),
                Piece("garbled", "CREATE TABEL x (id int);", FALSE, TRUE),
                Piece("other", "SELECT 1;", FALSE, FALSE),
                Piece("other", "  \t ", FALSE, FALSE),
                AlterKey("alter_pk", "ALTER TABLE users ADD CONSTRAINT users_pkey PRIMARY KEY (id);",
                         "public", "users", <<"id">>),
                AlterFk("ALTER TABLE users ADD CONSTRAINT users_fk FOREIGN KEY (id) REFERENCES users(id);",
                        "public", "users", FkDecl(<<"id">>, None, "users", <<"id">>, None, None)),
                AlterKey("alter_unique", "ALTER TABLE users ADD CONSTRAINT users_name_key UNIQUE (name);",
                         "public", "users", <<"name">>) }
  IN  SeqsOf(pool, 0, MaxPieces)

LooseInit ==
  /\ stmts \in LooseInputs
  /\ sql = SqlText(stmts)
  /\ pc = "create"
  /\ pos = 1
  /\ db = EmptyDatabase
  /\ bodies = <<>>
  /\ options = RenderOptions
  /\ out = ""
  /\ cli = None

\* parse_sql is one sequential call: it takes step after step until it has
\* returned.  This is weak fairness of Next with its enabling condition
\* written out: a loop has a next step or ends exactly while pc # "done".
LooseSpec == LooseInit /\ [][Next]_vars /\ ([]<>(pc = "rendered") \/ []<><<Next>>_vars)

-----------------------------------------------------------------------------
(* cli.py and exporter.py: one run of the command line.  cli holds the     *)
(* parsed arguments, the effects of the run outside the process in order   *)
(* (events) and the exit code once run has returned.  What the world       *)
(* outside answers (is stdin a terminal, does the file exist, is mmdc      *)
(* installed, how do mmdc and kroki.io end) is chosen when it is asked.    *)

\* the argparse.Namespace of create_parser, for the arguments `run` reads
\* (image: "" or the one of --svg, --png, --pdf given; verbose is not set)
Args(input, output, image, export_method, format) ==
  [input |-> input, output |-> output, image |-> image, export_method |-> export_method,
   format |-> format, mode |-> "normal",
   include_schemas |-> None, exclude_schemas |-> None,
   include_tables |-> None, exclude_tables |-> None,
   connected_only |-> FALSE, no_schema_prefix |-> FALSE,
   max_columns |-> 20, group_by_schema |-> FALSE, title |-> None]

\* the command lines of test_cli.py (TestCLIBasic, TestCLIImageExport), over
\* the three export methods; --format json is left out
ArgPool ==
  { Args(input, output, image, method, format) :
      input \in {"-", "schema.sql"}, output \in {"-", "diagram", "out/diagram.svg"},
      image \in {"", "svg", "png", "pdf"}, method \in {"auto", "local", "online"},
      format \in {"mermaid", "markdown"} }

\* the texts the command line is run on: no text, white space, text without
\* tables, and the tables of test_connected_only with constraints of the
\* three kinds added by ALTER TABLE
CliInputs ==
  { <<>>,
    <<Piece("other", "  \t ", FALSE, FALSE)>>,
    <<Piece("other", "SELECT 1;", FALSE, FALSE)>>,
    <<Create("CREATE TABLE ", "users", "public", "users",
             <<ColDef("id serial", "id", None), ColDef("name text", "name", None)>>, ""),
      Create("CREATE TABLE ", "posts", "public", "posts",
             <<ColDef("id serial PRIMARY KEY", "id", None),
               ColDef("user_id integer", "user_id", None)>>, ""),
      AlterKey("alter_pk", "ALTER TABLE users ADD CONSTRAINT users_pkey PRIMARY KEY (id);",
               "public", "users", <<"id">>),
      AlterFk("ALTER TABLE posts ADD CONSTRAINT fk FOREIGN KEY (user_id) REFERENCES users(id);",
              "public", "posts", FkDecl(<<"user_id">>, None, "users", <<"id">>, None, None)),
      AlterKey("alter_unique", "ALTER TABLE users ADD CONSTRAINT users_name_key UNIQUE (name);",
               "public", "users", <<"name">>)>> }

\* main: parser.parse_args(args), then run(parsed)
CliInit ==
  /\ stmts \in CliInputs
  /\ sql = ""
  /\ pc = "run"
  /\ pos = 1
  /\ db = EmptyDatabase
  /\ bodies = <<>>
  /\ options = RenderOptions
  /\ out = ""
  /\ cli \in { [args |-> a, path |-> a.output, events |-> <<>>, exit |-> None] : a \in ArgPool }

\* the run goes on: what it did outside the process is added to events
Did(c, what) == [c EXCEPT !.events = @ \o what]

\* run returns, or main returns for it after an exception: what it did
\* outside the process is added to events, the last of it a line on stderr
\* when the exit code is not 0
Exits(c, what, code) ==
  [c EXCEPT !.events = @ \o what \o (IF code = 0 THEN <<>> ELSE <<"stderr">>),
            !.exit = Some(code)]

\* run without lines 257-260
CliValidate_unchecked ==
  /\ pc = "run"
  /\ cli' = cli
  /\ pc' = "read"
  /\ UNCHANGED <<stmts, sql, pos, db, bodies, options, out>>

\* run, lines 254-260: image export needs an output file
CliValidate ==
  /\ pc = "run"
  /\ IF cli.args.image # "" /\ cli.args.output = "-"
     THEN cli' = Exits(cli, <<>>, 1) /\ pc' = "exit"
     ELSE cli' = cli /\ pc' = "read"
  /\ UNCHANGED <<stmts, sql, pos, db, bodies, options, out>>

\* run, lines 262-280: the input is read from stdin, unless stdin is a
\* terminal, or from the file, unless there is none; an empty or blank text
\* ends the run
CliRead ==
  /\ pc = "read"
  /\ \E there \in BOOLEAN : \E text \in {SqlText(stmts)} :
       IF ~there
       THEN cli' = Exits(cli, <<>>, 1) /\ pc' = "exit" /\ sql' = sql
       ELSE IF Strip(text) = ""
       THEN cli' = Exits(cli, <<"read">>, 1) /\ pc' = "exit" /\ sql' = text
       ELSE cli' = Did(cli, <<"read">>) /\ pc' = "create" /\ sql' = text
  /\ UNCHANGED <<stmts, pos, db, bodies, options, out>>

\* run, lines 300-312: RenderOptions(...) from the arguments
OptionsOf(args) ==
  [mode |-> args.mode,
   format |-> IF args.format = "markdown" THEN "markdown" ELSE "mermaid",
   include_schemas |-> args.include_schemas, exclude_schemas |-> args.exclude_schemas,
   include_tables |-> args.include_tables, exclude_tables |-> args.exclude_tables,
   connected_only |-> args.connected_only, show_schema_prefix |-> ~args.no_schema_prefix,
   max_columns |-> args.max_columns, group_by_schema |-> args.group_by_schema,
   title |-> args.title]

\* run, lines 296-318, after parse_sql: the warning when no table was found,
\* and render_mermaid under the options of the arguments
CliRender ==
  /\ pc = "done"
  /\ options' = OptionsOf(cli.args)
  /\ out' = render_mermaid(db, OptionsOf(cli.args))
  /\ cli' = Did(cli, IF table_count(db) = 0 THEN <<"stderr">> ELSE <<>>)
  /\ pc' = "rendered"
  /\ UNCHANGED <<stmts, sql, pos, db, bodies>>

\* run, lines 366-375: the text goes to stdout or to the output file, and
\* writing the file may fail (main then returns 1)
CliWrite ==
  /\ pc = "rendered"
  /\ cli.args.image = ""
  /\ \E written \in BOOLEAN :
       IF cli.args.output = "-" THEN written /\ cli' = Exits(cli, <<"stdout">>, 0)
       ELSE IF written THEN cli' = Exits(cli, <<"write_file">>, 0)
       ELSE cli' = Exits(cli, <<>>, 1)
  /\ pc' = "exit"
  /\ UNCHANGED <<stmts, sql, pos, db, bodies, options, out>>

\* Path(p).suffix is not empty: the last "." of the final component is
\* neither its first nor its last character
HasSuffix(p) ==
  With(From(p, LastIn(1, Len(p), LAMBDA k : At(p, k) = "/") + 1), LAMBDA name :
  With(LastIn(1, Len(name), LAMBDA k : At(name, k) = "."), LAMBDA dot :
    dot > 1 /\ dot < Len(name)))

\* export_diagram, lines 67-71: the output path with the extension of the
\* format when it has none
OutputPath(output, export_format) ==
  IF HasSuffix(output) THEN output ELSE output \o "." \o export_format

\* export_diagram returns or raises into run; ExportError, unless caught
\* inside (AUTO after the local attempt), and any other exception end the
\* run with code 1
Raises(c, what, error) == Exits(c, what \o <<error>>, 1)

\* export_diagram, lines 67-93, up to the call of _export_local or
\* _export_online: the output path, and shutil.which("mmdc") for AUTO and LOCAL
CliExport ==
  /\ pc = "rendered"
  /\ cli.args.image # ""
  /\ \E c \in {[cli EXCEPT !.path = OutputPath(cli.args.output, cli.args.image)]} :
     \E found \in BOOLEAN :
       IF c.args.export_method = "auto"
       THEN IF found THEN cli' = Did(c, <<"mmdc_found">>) /\ pc' = "local"
            ELSE cli' = Did(c, <<"mmdc_missing">>) /\ pc' = "online"
       ELSE IF c.args.export_method = "local"
       THEN IF found THEN cli' = Did(c, <<"mmdc_found">>) /\ pc' = "local"
            ELSE cli' = Raises(c, <<"mmdc_missing">>, "ExportError") /\ pc' = "exit"
       ELSE found /\ cli' = c /\ pc' = "online"
  /\ UNCHANGED <<stmts, sql, pos, db, bodies, options, out>>

\* how subprocess.run of mmdc ends in _export_local: the file is there, the
\* return code is not 0, no file was made, TimeoutExpired, FileNotFoundError,
\* another OSError
LocalOutcomes == {"ok", "returncode", "no_output", "timeout", "not_found", "os_error"}

\* _export_local with its ExportError passed on to run under every method
ExportLocal_without_fallback ==
  /\ pc = "local"
  /\ \E outcome \in LocalOutcomes :
       IF outcome = "ok"
       THEN cli' = Exits(cli, <<"tempfile", "mmdc", "image", "unlink">>, 0)
       ELSE IF outcome = "os_error"
       THEN cli' = Raises(cli, <<"tempfile", "mmdc", "unlink">>, "OSError")
       ELSE cli' = Raises(cli, <<"tempfile", "mmdc", "unlink">>, "ExportError")
  /\ pc' = "exit"
  /\ UNCHANGED <<stmts, sql, pos, db, bodies, options, out>>

\* _export_local, and lines 80-83 of export_diagram: an ExportError of the
\* local attempt is dropped under AUTO, and the online attempt follows
ExportLocal ==
  /\ pc = "local"
  /\ \E outcome \in LocalOutcomes :
       IF outcome = "ok"
       THEN cli' = Exits(cli, <<"tempfile", "mmdc", "image", "unlink">>, 0) /\ pc' = "exit"
       ELSE IF outcome = "os_error"
       THEN cli' = Raises(cli, <<"tempfile", "mmdc", "unlink">>, "OSError") /\ pc' = "exit"
       ELSE IF cli.args.export_method = "auto"
       THEN cli' = Did(cli, <<"tempfile", "mmdc", "unlink", "ExportError">>) /\ pc' = "online"
       ELSE cli' = Raises(cli, <<"tempfile", "mmdc", "unlink">>, "ExportError") /\ pc' = "exit"
  /\ UNCHANGED <<stmts, sql, pos, db, bodies, options, out>>

\* how _export_online ends: the content is written, HTTPError 400, another
\* HTTPError, URLError, TimeoutError, or the content cannot be written (OSError)
OnlineOutcomes == {"ok", "http_400", "http_error", "url_error", "timeout", "os_error"}

\* _export_online: the request, then the file; for PNG the background is
\* added by ImageMagick when it is installed
ExportOnline ==
  /\ pc = "online"
  /\ \E outcome \in OnlineOutcomes : \E magick \in BOOLEAN :
       IF outcome = "os_error"
       THEN magick /\ cli' = Raises(cli, <<"kroki">>, "OSError")
       ELSE IF outcome # "ok"
       THEN magick /\ cli' = Raises(cli, <<"kroki">>, "ExportError")
       ELSE IF cli.args.image = "png"
       THEN cli' = Exits(cli, <<"kroki", "image">> \o (IF magick THEN <<"magick">> ELSE <<>>), 0)
       ELSE magick /\ cli' = Exits(cli, <<"kroki", "image">>, 0)
  /\ pc' = "exit"
  /\ UNCHANGED <<stmts, sql, pos, db, bodies, options, out>>

\* main: run(parsed), which calls parse_sql, render_mermaid and export_diagram
CliNext ==
  \/ CliValidate
  \/ CliRead
  \/ CreateTable
  \/ CreateDone
  \/ AlterPrimaryKey
  \/ AlterPrimaryKeyDone
  \/ AlterForeignKey
  \/ AlterForeignKeyDone
  \/ AlterUnique
  \/ AlterUniqueDone
  \/ CliRender
  \/ CliWrite
  \/ CliExport
  \/ ExportLocal
  \/ ExportOnline

CliSpec == CliInit /\ [][CliNext]_vars

-----------------------------------------------------------------------------
(* What the statements declare, against what the parser recovered           *)

\* the CREATE TABLE statements of the input, in input order; the k-th entry
\* of bodies is the match of the k-th of them
Creates == SelectSeq(stmts, LAMBDA s : s.kind = "create")

\* the (schema, name) pairs the CREATE TABLE statements declare
Declared == {<<Creates[k].schema, Creates[k].name>> : k \in 1..Len(Creates)}

\* the (schema, name) pairs of the tables the database lists
Listed == {<<all_tables(db)[k].schema, all_tables(db)[k].name>> : k \in 1..Len(all_tables(db))}

\* the k-th CREATE TABLE statement has been read and no later one read so far
\* re-declares its table: the database holds the table built from it
IsLatest(k) ==
  /\ k \in 1..Len(bodies)
  /\ \A j \in (k + 1)..Len(bodies) :
       <<Creates[j].schema, Creates[j].name>> # <<Creates[k].schema, Creates[k].name>>

\* the table the database holds for the k-th CREATE TABLE statement
TableOf(k) == get_table(db, Creates[k].schema, Creates[k].name)[1]

\* the k-th body was cut out of its statement whole
BodyWhole(k) == bodies[k].body = BodyText(Creates[k].defs)

\* the names of the columns a definition list declares, in order
RECURSIVE DeclaredColumns(_)
DeclaredColumns(defs) ==
  IF defs = <<>> THEN <<>>
  ELSE (IF Head(defs).col = "" THEN <<>> ELSE <<Head(defs).col>>) \o DeclaredColumns(Tail(defs))

\* the names of a table's columns, in order
ColumnNames(table) == [i \in 1..Len(table.columns) |-> table.columns[i].name]

\* some definition of the list holds the text part
AnyDefHas(defs, part) == \E d \in 1..Len(defs) : Contains(defs[d].text, part)

\* C1: once the CREATE TABLE statements are read, the database holds exactly
\* one table for each declared (schema, name) pair, however the name was
\* written (quoted or not, with the default schema spelled out or not, after
\* IF NOT EXISTS or a modifier word): the listed pairs are the declared ones,
\* no pair is listed twice, each table sits in the schema it names, each
\* declared pair can be looked up, and table_count is the number of pairs.
C1_OneTablePerDeclaredName ==
  pc # "create" =>
    /\ Listed = Declared
    /\ Len(all_tables(db)) = Cardinality(Listed)
    /\ \A i \in 1..Len(db) : \A k \in 1..Len(db[i].tables) : db[i].tables[k].schema = db[i].name
    /\ \A d \in Declared : get_table(db, d[1], d[2]) # None
    /\ table_count(db) = Cardinality(Declared)

\* two statements that spell one table of a non-default schema differently
\* have been parsed into one table
C1_Witness ==
  /\ pc = "done"
  /\ Len(Creates) = 2
  /\ Creates[1].text # Creates[2].text
  /\ Creates[1].schema = "auth"
  /\ <<Creates[1].schema, Creates[1].name>> = <<Creates[2].schema, Creates[2].name>>
  /\ table_count(db) = 1

\* C2: a string literal that holds ");" does not end the body: the body of
\* such a statement is the whole text between its outer parentheses and the
\* table has the declared columns.
C2_LiteralDoesNotEndBody ==
  \A k \in 1..Len(bodies) :
    (IsLatest(k) /\ AnyDefHas(Creates[k].defs, ");")) =>
      /\ BodyWhole(k)
      /\ ColumnNames(TableOf(k)) = DeclaredColumns(Creates[k].defs)

\* C3: the body of every CREATE TABLE statement is the text between its
\* outermost matching parentheses, whatever follows the closing one before
\* the ";" (statements with ");" inside a literal are left to C2).
C3_BodyIsOutermostParentheses ==
  \A k \in 1..Len(bodies) :
    ~AnyDefHas(Creates[k].defs, ");") => BodyWhole(k)

\* the k-th body was split into the definitions its statement declares
SplitWhole(k) == bodies[k].definitions = DefTexts(Creates[k].defs)

\* the defaults of the columns a definition list declares, in order
RECURSIVE DeclaredDefaults(_)
DeclaredDefaults(defs) ==
  IF defs = <<>> THEN <<>>
  ELSE (IF Head(defs).col = "" THEN <<>> ELSE <<Head(defs).default>>) \o DeclaredDefaults(Tail(defs))

\* the defaults of a table's columns, in order
ColumnDefaults(table) == [i \in 1..Len(table.columns) |-> table.columns[i].default]

\* every column of the table with one of the names carries the primary-key mark
AllMarkedPrimary(table, names) ==
  \A i \in 1..Len(table.columns) :
    (\E n \in 1..Len(names) : names[n] = table.columns[i].name) => table.columns[i].is_primary_key

\* the foreign key is the declared one
FkAsDeclared(fk, decl) ==
  /\ fk.columns = decl.columns
  /\ fk.ref_table = decl.ref_table
  /\ fk.ref_columns = decl.ref_columns
  /\ fk.on_delete = decl.on_delete
  /\ fk.on_update = decl.on_update

\* the table holds the declared foreign key
HasFk(table, decl) ==
  \E f \in 1..Len(table.foreign_keys) : FkAsDeclared(table.foreign_keys[f], decl)

\* the scanner state of _split_definitions after the last character of body
ScanEnd(body) == SplitLoop(body, 1, Log2(Len(body)), SplitStart)

\* C4: a body is split at its top-level commas and nowhere else: the
\* definitions are the declared ones, so that a comma inside parentheses
\* (numeric(10,2), a CHECK clause) or inside a quoted name or literal splits
\* nothing and every comma between two definitions does split. (Bodies cut
\* short are left to C2 and C3, literals with a backslash before a quote to C5.)
C4_SplitOnTopLevelCommasOnly ==
  \A k \in 1..Len(bodies) :
    (BodyWhole(k) /\ ~AnyDefHas(Creates[k].defs, "\\'")) => SplitWhole(k)

\* a CHECK clause between a column and a numeric(10,2) column came out as the
\* second of three definitions
C4_Witness ==
  \E k \in 1..Len(bodies) :
    /\ BodyWhole(k)
    /\ Len(bodies[k].definitions) = 3
    /\ bodies[k].definitions[2] = "CHECK (age >= 0 AND age <= 150)"
    /\ Contains(bodies[k].definitions[3], "numeric(10,2)")

\* C5: a literal with a doubled quote never splits the definition list early:
\* the definitions are the declared ones, the scanner ends outside any string
\* and the table has as many columns as were declared.
C5_DoubledQuoteKeepsDefinition ==
  \A k \in 1..Len(bodies) :
    (IsLatest(k) /\ BodyWhole(k) /\ AnyDefHas(Creates[k].defs, "''")) =>
      /\ SplitWhole(k)
      /\ ~ScanEnd(bodies[k].body).in_string
      /\ Len(TableOf(k).columns) = Len(DeclaredColumns(Creates[k].defs))

\* C6: every column definition with an inline REFERENCES gives its table a
\* foreign key from that column to the referenced table and columns, with
\* on_delete as written, and marks the column is_foreign_key.
C6_InlineReferences ==
  \A k \in 1..Len(bodies) :
    (IsLatest(k) /\ BodyWhole(k) /\ SplitWhole(k)) =>
      \A d \in 1..Len(Creates[k].defs) :
        Creates[k].defs[d].ref # None =>
          /\ \E f \in 1..Len(TableOf(k).foreign_keys) :
               /\ TableOf(k).foreign_keys[f].columns = <<Creates[k].defs[d].col>>
               /\ TableOf(k).foreign_keys[f].ref_table = Creates[k].defs[d].ref[1].ref_table
               /\ TableOf(k).foreign_keys[f].ref_columns = Creates[k].defs[d].ref[1].ref_columns
               /\ TableOf(k).foreign_keys[f].on_delete = Creates[k].defs[d].ref[1].on_delete
          /\ \A i \in 1..Len(TableOf(k).columns) :
               TableOf(k).columns[i].name = Creates[k].defs[d].col => TableOf(k).columns[i].is_foreign_key

\* C7: a FOREIGN KEY constraint with both ON DELETE a and ON UPDATE b, in a
\* CREATE TABLE body or (once the ALTER TABLE foreign keys are applied) in an
\* ALTER TABLE on an existing table, gives the table a foreign key with the
\* declared columns and referenced table, on_delete = a and on_update = b.
C7_BothActions ==
  /\ \A k \in 1..Len(bodies) :
       (IsLatest(k) /\ BodyWhole(k) /\ SplitWhole(k)) =>
         \A d \in 1..Len(Creates[k].defs) :
           (/\ Creates[k].defs[d].fk # None
            /\ Creates[k].defs[d].fk[1].on_delete # None
            /\ Creates[k].defs[d].fk[1].on_update # None)
             => HasFk(TableOf(k), Creates[k].defs[d].fk[1])
  /\ pc \in {"alter_unique", "done"} =>
       \A s \in 1..Len(stmts) :
         (/\ stmts[s].kind = "alter_fk"
          /\ <<stmts[s].schema, stmts[s].name>> \in Listed
          /\ stmts[s].fk.on_delete # None
          /\ stmts[s].fk.on_update # None)
           => HasFk(get_table(db, stmts[s].schema, stmts[s].name)[1], stmts[s].fk)

\* C8: the default of every column is the whole value written after DEFAULT
\* (a bare token, a quoted string with its quotes, a parenthesized expression,
\* a function call with its parentheses), and absent without DEFAULT.
C8_DefaultIsWholeValue ==
  \A k \in 1..Len(bodies) :
    (IsLatest(k) /\ BodyWhole(k) /\ SplitWhole(k)) =>
      ColumnDefaults(TableOf(k)) = DeclaredDefaults(Creates[k].defs)

\* the table-level PRIMARY KEY clauses of a definition list, in order
PkClauses(defs) == SelectSeq(defs, LAMBDA d : d.pk # <<>>)

\* the ALTER TABLE ... PRIMARY KEY statements of the input against a table
AlterPksOf(schema, name) ==
  SelectSeq(stmts, LAMBDA s : s.kind = "alter_pk" /\ s.schema = schema /\ s.name = name)

\* no ALTER TABLE ... PRIMARY KEY statement has touched the table of the k-th
\* CREATE TABLE statement
NoAlterPkYet(k) ==
  pc = "create" \/ AlterPksOf(Creates[k].schema, Creates[k].name) = <<>>

\* C9: a table-level PRIMARY KEY (c1, ..., cn) clause makes primary_key the
\* list c1, ..., cn in declared order and marks every column of the table
\* that the list names; a name without a column changes nothing else: the
\* table is there with all its declared columns.
C9_TableLevelPrimaryKey ==
  \A k \in 1..Len(bodies) :
    (/\ IsLatest(k) /\ BodyWhole(k) /\ SplitWhole(k)
     /\ PkClauses(Creates[k].defs) # <<>>
     /\ NoAlterPkYet(k)) =>
      /\ TableOf(k).primary_key = PkClauses(Creates[k].defs)[Len(PkClauses(Creates[k].defs))].pk
      /\ AllMarkedPrimary(TableOf(k), TableOf(k).primary_key)
      /\ ColumnNames(TableOf(k)) = DeclaredColumns(Creates[k].defs)

\* the table of test_table_level_primary_key has been parsed to the end of
\* the input with no ALTER TABLE changing its key
C9_Witness ==
  /\ pc = "done"
  /\ Len(bodies) = 1
  /\ PkClauses(Creates[1].defs) # <<>>
  /\ NoAlterPkYet(1)
  /\ TableOf(1).primary_key = <<"post_id", "tag_id">>
  /\ \A i \in 1..2 : TableOf(1).columns[i].is_primary_key

\* C10: once the ALTER TABLE ... PRIMARY KEY statements are applied, a table
\* of the input that such statements name has the column list of the last of
\* them as its primary_key, and every column the list names is marked,
\* whether or not a column carried an inline PRIMARY KEY.
C10_AlterTablePrimaryKey ==
  pc \in {"alter_fk", "alter_unique", "done"} =>
    \A k \in 1..Len(bodies) :
      (IsLatest(k) /\ AlterPksOf(Creates[k].schema, Creates[k].name) # <<>>) =>
        /\ TableOf(k).primary_key =
             AlterPksOf(Creates[k].schema, Creates[k].name)[Len(AlterPksOf(Creates[k].schema, Creates[k].name))].columns
        /\ AllMarkedPrimary(TableOf(k), TableOf(k).primary_key)

\* a table created without any PRIMARY KEY text got a two-column key from an
\* ALTER TABLE ONLY statement
C10_Witness ==
  /\ pc = "done"
  /\ Len(bodies) = 1
  /\ ~AnyDefHas(Creates[1].defs, "PRIMARY KEY")
  /\ \E s \in 1..Len(stmts) : stmts[s].kind = "alter_pk" /\ Contains(stmts[s].text, "only")
  /\ TableOf(1).primary_key = <<"name", "id">>
  /\ \A i \in 1..2 : TableOf(1).columns[i].is_primary_key

\* the position in the input text where the text of the s-th statement starts
RECURSIVE StmtStart(_)
StmtStart(s) == IF s = 1 THEN 1 ELSE StmtStart(s - 1) + Len(stmts[s - 1].text) + 1

\* the statement whose text holds position p of the input text
StmtAt(p) ==
  CHOOSE s \in 1..Len(stmts) : StmtStart(s) <= p /\ p <= StmtStart(s) + Len(stmts[s].text)

\* C11: an ALTER TABLE ... ADD CONSTRAINT clause of any of the three kinds
\* whose table is not in the database is dropped: the step that consumes it
\* leaves the database as it was (no table, no schema, no change to a table).
C11_MissingTableDropped ==
  [][(/\ pc \in {"alter_pk", "alter_fk", "alter_unique"}
      /\ pc' = pc
      /\ <<stmts[StmtAt(pos' - 1)].schema, stmts[StmtAt(pos' - 1)].name>> \notin Listed)
       => db' = db]_vars

\* a FOREIGN KEY clause against a table of a schema that no statement creates
\* has been consumed, and the schema is not there
C11_Witness ==
  /\ pc = "done"
  /\ \E s \in 1..Len(stmts) :
       /\ stmts[s].kind = "alter_fk"
       /\ stmts[s].schema = "audit"
       /\ <<stmts[s].schema, stmts[s].name>> \notin Listed
  /\ \A i \in 1..Len(db) : db[i].name # "audit"

\* the table holds a foreign key with the declared columns and reference
HasFkTo(table, decl) ==
  \E f \in 1..Len(table.foreign_keys) :
    /\ table.foreign_keys[f].columns = decl.columns
    /\ table.foreign_keys[f].ref_schema = decl.ref_schema
    /\ table.foreign_keys[f].ref_table = decl.ref_table
    /\ table.foreign_keys[f].ref_columns = decl.ref_columns

\* the table of the ALTER TABLE statement stmts[s] shows the statement's effect
AlterApplied(s) ==
  With(get_table(db, stmts[s].schema, stmts[s].name)[1], LAMBDA table :
    IF stmts[s].kind = "alter_pk"
    THEN table.primary_key =
           AlterPksOf(stmts[s].schema, stmts[s].name)[Len(AlterPksOf(stmts[s].schema, stmts[s].name))].columns
    ELSE IF stmts[s].kind = "alter_unique"
    THEN \E u \in 1..Len(table.unique_constraints) : table.unique_constraints[u] = stmts[s].columns
    ELSE HasFkTo(table, stmts[s].fk))

\* C12: the two passes do not interleave.  While the CREATE TABLE pass runs,
\* every table is exactly what its CREATE TABLE statement made it; when the
\* ALTER TABLE pass starts, every CREATE TABLE statement of the input has been
\* read; and at the end every ALTER TABLE clause whose table is created
\* anywhere in the input, before or after the clause, has taken effect.
C12_CreatePassBeforeAlterPass ==
  /\ pc = "create" =>
       \A k \in 1..Len(bodies) :
         IsLatest(k) => TableOf(k) = _parse_table(bodies[k].name, bodies[k].body)
  /\ pc # "create" => Len(bodies) = Len(Creates)
  /\ pc = "done" =>
       \A s \in 1..Len(stmts) :
         (stmts[s].kind # "create" /\ <<stmts[s].schema, stmts[s].name>> \in Declared)
           => AlterApplied(s)

\* the input starts with ALTER TABLE ... PRIMARY KEY, the table is created by
\* a later statement, and the table has the key
C12_Witness ==
  /\ pc = "done"
  /\ stmts[1].kind = "alter_pk"
  /\ \E s \in 2..Len(stmts) :
       /\ stmts[s].kind = "create"
       /\ <<stmts[s].schema, stmts[s].name>> = <<stmts[1].schema, stmts[1].name>>
       /\ get_table(db, stmts[s].schema, stmts[s].name)[1].primary_key = stmts[1].columns

\* the tables of the database with the names of their columns
ListedColumns ==
  {<<all_tables(db)[k].schema, all_tables(db)[k].name, ColumnNames(all_tables(db)[k])>> :
     k \in 1..Len(all_tables(db))}

\* C13: a CREATE TABLE statement without its closing ");" contributes no
\* table, and every well-formed CREATE TABLE statement of the input, before
\* or after it, is parsed into its own table with its own columns: after the
\* CREATE TABLE pass the tables are those of the well-formed statements.
C13_MalformedSkipped ==
  (pc # "create" /\ \E s \in 1..Len(stmts) : stmts[s].kind = "malformed") =>
    ListedColumns =
      {<<Creates[k].schema, Creates[k].name, DeclaredColumns(Creates[k].defs)>> : k \in 1..Len(Creates)}

\* the input has no well-formed CREATE TABLE statement, and no unclosed
\* column list that the ");" of a later piece would close
NoCreateText ==
  /\ \A s \in 1..Len(stmts) : stmts[s].kind \notin {"create"}
  /\ \A i, j \in 1..Len(stmts) :
       ~(i < j /\ stmts[i].kind = "malformed" /\ stmts[j].kind # "malformed" /\ stmts[j].kind # "other")

C15_NormalizeIdempotent ==
  \A k \in 1..Len(all_tables(db)) :
    \A c \in 1..Len(all_tables(db)[k].columns) :
      _normalize_type(all_tables(db)[k].columns[c].data_type) = all_tables(db)[k].columns[c].data_type

\* the one definition of the k-th CREATE TABLE statement is a typed column
IsTypeDef(k) ==
  /\ Len(Creates[k].defs) = 1
  /\ "raw" \in DOMAIN Creates[k].defs[1]

\* C16: a verbose spelling of the type table, in any letter case and with any
\* white space between its words, followed by a suffix, is normalized to the
\* table's short form for that spelling followed by the suffix; a type outside
\* the table is lower-cased with its white space collapsed.
C16_TypeTable ==
  \A k \in 1..Len(bodies) :
    (IsLatest(k) /\ IsTypeDef(k)) =>
      /\ Len(TableOf(k).columns) = 1
      /\ TableOf(k).columns[1].data_type = Creates[k].defs[1].short \o Creates[k].defs[1].suffix
      /\ _normalize_type(Creates[k].defs[1].raw) = TableOf(k).columns[1].data_type

\* "Character varying(100)" written with a run of white space has become
\* varchar(100)
C16_Witness ==
  \E k \in 1..Len(bodies) :
    /\ IsLatest(k) /\ IsTypeDef(k)
    /\ Creates[k].defs[1].raw = "Character  \tvarying(100)"
    /\ TableOf(k).columns[1].data_type = "varchar(100)"

\* C17: a foreign key stores the referenced schema only when the reference
\* is written with a schema other than public: no foreign key of the database
\* has ref_schema public, and every FOREIGN KEY clause of a CREATE TABLE body
\* and (once the ALTER TABLE foreign keys are applied) of an ALTER TABLE
\* statement is on its table with the declared ref_schema and ref_table.
C17_RefSchemaOnlyIfNotPublic ==
  /\ \A k \in 1..Len(all_tables(db)) :
       \A f \in 1..Len(all_tables(db)[k].foreign_keys) :
         all_tables(db)[k].foreign_keys[f].ref_schema # Some(DEFAULT_SCHEMA)
  /\ \A k \in 1..Len(bodies) :
       (IsLatest(k) /\ BodyWhole(k) /\ SplitWhole(k)) =>
         \A d \in 1..Len(Creates[k].defs) :
           Creates[k].defs[d].fk # None => HasFkTo(TableOf(k), Creates[k].defs[d].fk[1])
  /\ pc \notin {"create", "alter_pk", "alter_fk"} =>
       \A s \in 1..Len(stmts) :
         (stmts[s].kind = "alter_fk" /\ <<stmts[s].schema, stmts[s].name>> \in Listed)
           => HasFkTo(get_table(db, stmts[s].schema, stmts[s].name)[1], stmts[s].fk)

\* a table of schema auth has a foreign key written REFERENCES public.users
\* and stored with no ref_schema
C17_Witness ==
  /\ pc = "done"
  /\ \E k \in 1..Len(bodies) :
       /\ Creates[k].schema = "auth"
       /\ AnyDefHas(Creates[k].defs, "REFERENCES public.users")
       /\ Len(TableOf(k).foreign_keys) = 1
       /\ TableOf(k).foreign_keys[1].ref_schema = None

\* the names of the columns of a table that carry the primary-key mark
PrimaryMarked(table) ==
  { table.columns[i].name : i \in { j \in 1..Len(table.columns) : table.columns[j].is_primary_key } }

\* C18: once the ALTER TABLE ... PRIMARY KEY statements are applied, a table
\* that such statements name has the column list of the last of them as its
\* primary_key, and the columns that carry the primary-key mark are the
\* columns that list names and no others: no mark of an earlier PRIMARY KEY
\* constraint or of an inline PRIMARY KEY is left.
C18_PrimaryKeyOverwrites ==
  pc \in {"alter_fk", "alter_unique", "done"} =>
    \A k \in 1..Len(bodies) :
      (IsLatest(k) /\ AlterPksOf(Creates[k].schema, Creates[k].name) # <<>>) =>
        /\ TableOf(k).primary_key =
             AlterPksOf(Creates[k].schema, Creates[k].name)[Len(AlterPksOf(Creates[k].schema, Creates[k].name))].columns
        /\ PrimaryMarked(TableOf(k)) =
             { TableOf(k).primary_key[n] : n \in
                 { m \in 1..Len(TableOf(k).primary_key) :
                     FirstColumnIndex(TableOf(k), TableOf(k).primary_key[m]) # 0 } }

\* str.split("\n")
RECURSIVE Lines(_)
Lines(s) ==
  With(Find(s, "\n", 1), LAMBDA k :
    IF k = 0 THEN <<s>> ELSE <<Sub(s, 1, k - 1)>> \o Lines(From(s, k + 1)))

\* the lines of the output below the line "%% Relationships" (none when the
\* output has no such line), without the closing fence of a markdown block
RelationshipLines ==
  With(Lines(out), LAMBDA ls :
  With(LastIn(1, Len(ls), LAMBDA k : ls[k] = "    %% Relationships"), LAMBDA k :
    IF k = 0 THEN <<>>
    ELSE SubSeq(ls, k + 1, IF options.format = "markdown" THEN Len(ls) - 1 ELSE Len(ls))))

\* the tables render_mermaid renders under the options of the state
RenderedTables ==
  IF options.connected_only THEN _filter_connected_tables(_filter_tables(db, options), db)
  ELSE _filter_tables(db, options)

\* the foreign keys of the rendered tables that pass the test of line 324,
\* each with its key and its line
ShownRelationships ==
  With(Relationships(RenderedTables, RenderedTables, db, options), LAMBDA rels :
    { rels[k] : k \in { j \in 1..Len(rels) : rels[j].shown } })

\* C19: the output of render_mermaid has one relationship line for every
\* triple (source identifier, target identifier, label) of a foreign key it
\* shows, and has it once: foreign keys of one table to one target with
\* different local columns give a line each, foreign keys with the same
\* triple give one line.
C19_DedupByTriple ==
  pc = "rendered" =>
    /\ \A i, j \in 1..Len(RelationshipLines) :
         i # j => RelationshipLines[i] # RelationshipLines[j]
    /\ { RelationshipLines[i] : i \in 1..Len(RelationshipLines) }
         = { "    " \o r.line : r \in ShownRelationships }

\* the tables of test_multiple_fks_between_same_tables are rendered: messages
\* has two foreign keys to users, and the output has a line for each
C19_Witness ==
  /\ pc = "rendered"
  /\ \E k \in 1..Len(RenderedTables) :
       /\ RenderedTables[k].name = "messages"
       /\ Len(RenderedTables[k].foreign_keys) = 2
       /\ RenderedTables[k].foreign_keys[1].ref_table = RenderedTables[k].foreign_keys[2].ref_table
  /\ RelationshipLines = <<"    users ||--o{ messages : \"sender_id\"",
                           "    users ||--o{ messages : \"receiver_id\"">>

\* the Mermaid identifiers of the rendered tables
RenderedIds ==
  { _sanitize_identifier(RenderedTables[k], options) : k \in 1..Len(RenderedTables) }

\* the identifier before " ||--o{ " in a relationship line of the output
TargetId(line) == Sub(line, 5, Find(line, " ||--o{ ", 1) - 1)

\* the identifier between " ||--o{ " and " : " in a relationship line of the output
SourceId(line) == Sub(line, Find(line, " ||--o{ ", 1) + 8, Find(line, " : \"", 1) - 1)

\* C20: every relationship line of the output of render_mermaid joins two
\* rendered tables: the identifier of the referencing table and the
\* identifier of the referenced table are both identifiers of tables of the
\* filtered set.
C20_BothEndpointsRendered ==
  pc = "rendered" =>
    \A i \in 1..Len(RelationshipLines) :
      /\ SourceId(RelationshipLines[i]) \in RenderedIds
      /\ TargetId(RelationshipLines[i]) \in RenderedIds

\* the tables that pass the schema and table filters of the options of the state
FilteredTables == _filter_tables(db, options)

\* the table of the database a foreign key of a table resolves to: the table
\* of the written schema when the reference has one, else the table of that
\* name found from the referencing table's schema; <<table>> or None
ResolvedTarget(table, fk) ==
  IF Truthy(fk.ref_schema) THEN get_table(db, fk.ref_schema[1], fk.ref_table)
  ELSE find_table_by_name(db, fk.ref_table, Some(table.schema))

\* the table has a foreign key to a table of the database, or is the table a
\* foreign key of a filtered table resolves to
Participates(table) ==
  \/ \E k \in 1..Len(table.foreign_keys) : ResolvedTarget(table, table.foreign_keys[k]) # None
  \/ \E u \in 1..Len(FilteredTables) : \E k \in 1..Len(FilteredTables[u].foreign_keys) :
       ResolvedTarget(FilteredTables[u], FilteredTables[u].foreign_keys[k]) = Some(table)

\* the lines of the output that open a table
TableHeaders ==
  With(Lines(out), LAMBDA ls :
    { ls[k] : k \in { j \in 1..Len(ls) : Len(ls[j]) > 6 /\ Sub(ls[j], 1, 4) = "    "
                                          /\ At(ls[j], 5) # " " /\ At(ls[j], 5) # "%"
                                          /\ From(ls[j], Len(ls[j]) - 1) = " {" } })

\* C21: with connected_only, the tables in the output of render_mermaid are
\* the filtered tables that take part in a foreign-key relationship: those
\* with a foreign key to a table of the database and those a foreign key of a
\* filtered table resolves to; no other table is in the output.
C21_ConnectedOnly ==
  (pc = "rendered" /\ options.connected_only) =>
    TableHeaders =
      { "    " \o _sanitize_identifier(FilteredTables[k], options) \o " {" :
          k \in { j \in 1..Len(FilteredTables) : Participates(FilteredTables[j]) } }

\* the positions, in the lines of the output, of the lines that open a table
HeaderPositions ==
  With(Lines(out), LAMBDA ls :
    SelectSeq([i \in 1..Len(ls) |-> i], LAMBDA j : ls[j] \in TableHeaders))

\* the lines of the k-th table of the output between its opening line and
\* its closing line
BlockLines(k) ==
  With(Lines(out), LAMBDA ls :
    SubSeq(ls, HeaderPositions[k] + 1,
           FirstIn(HeaderPositions[k], Len(ls), LAMBDA j : ls[j] = "    }") - 1))

\* the truncation notes among the lines of a table
NoteLines(block) == SelectSeq(block, LAMBDA l : StartsWith(l, "        %% ... "))

\* the number of column lines among the lines of a table
ColumnLineCount(block) == Len(block) - Len(NoteLines(block))

\* the tables of the output in the order of their blocks
RenderedInOrder == SortTables(RenderedTables)

\* C22: a truncation note `... N more columns` in a table of the output of
\* render_mermaid gives, as N, the number of columns of the table that the
\* output does not show, and stands under at most max_columns column lines;
\* with max_columns = 0 there is no note and the table shows all columns of
\* the mode (its key columns in compact mode, all its columns otherwise).
C22_TruncationNote ==
  pc = "rendered" =>
    \A k \in 1..Len(HeaderPositions) :
      /\ NoteLines(BlockLines(k)) # <<>> =>
           /\ NoteLines(BlockLines(k)) =
                <<"        %% ... "
                    \o Str(Len(RenderedInOrder[k].columns) - ColumnLineCount(BlockLines(k)))
                    \o " more columns">>
           /\ ColumnLineCount(BlockLines(k)) <= options.max_columns
      /\ options.max_columns = 0 =>
           /\ NoteLines(BlockLines(k)) = <<>>
           /\ ColumnLineCount(BlockLines(k)) =
                IF options.mode = "compact"
                THEN Len(SelectSeq(RenderedInOrder[k].columns,
                                   LAMBDA c : c.is_primary_key \/ c.is_foreign_key))
                ELSE Len(RenderedInOrder[k].columns)

\* the places of an event among the events of the run
Places(what) == { k \in 1..Len(cli.events) : cli.events[k] = what }

\* export_diagram was called and the run has ended
Exported == pc = "exit" /\ cli.args.image # "" /\ out # ""

\* mmdc was started and made the image
LocalSucceeded ==
  \E k \in Places("mmdc") : k < Len(cli.events) /\ cli.events[k + 1] = "image"

\* mmdc was started and _export_local raised ExportError
LocalFailed ==
  \E k \in Places("mmdc") : \E j \in Places("ExportError") :
    j > k /\ \A i \in Places("kroki") : i > j

\* C23: export_diagram with method AUTO starts mmdc exactly when mmdc is
\* available, and before any request to the online service; it contacts the
\* online service exactly when mmdc is unavailable or the local attempt
\* raised ExportError, and never after a local export that succeeded.  With
\* method LOCAL the online service is never contacted, and a missing mmdc
\* raises ExportError with no temporary file written and no subprocess started.
C23_AutoFallsBack ==
  /\ \A k \in Places("mmdc") : \A j \in Places("kroki") : k < j
  /\ LocalSucceeded => Places("kroki") = {}
  /\ (Exported /\ cli.args.export_method = "auto") =>
       /\ Places("mmdc") # {} <=> Places("mmdc_found") # {}
       /\ Places("kroki") # {} <=> (Places("mmdc_missing") # {} \/ LocalFailed)
  /\ cli.args.export_method = "local" =>
       /\ Places("kroki") = {}
       /\ (Exported /\ Places("mmdc_missing") # {}) =>
            /\ Places("ExportError") # {}
            /\ cli.exit = Some(1)
            /\ Places("mmdc") = {} /\ Places("tempfile") = {}

\* a run under AUTO where mmdc was started, raised ExportError, and the
\* online service made the image
C23_Witness ==
  /\ Exported /\ cli.args.export_method = "auto"
  /\ LocalFailed
  /\ \E k \in Places("kroki") : k < Len(cli.events) /\ cli.events[k + 1] = "image"
  /\ cli.exit = Some(0)

\* C24: with one of --svg, --png, --pdf and the output on stdout the run
\* returns 1 with nothing read, parsed, rendered, exported or written: its
\* only effect is the message on stderr.
C24_ImageNeedsOutputFile ==
  (cli.args.image # "" /\ cli.args.output = "-") =>
    /\ pc \in {"run", "exit"}
    /\ sql = "" /\ db = EmptyDatabase /\ bodies = <<>> /\ out = ""
    /\ cli.events = (IF pc = "exit" THEN <<"stderr">> ELSE <<>>)
    /\ pc = "exit" => cli.exit = Some(1)

\* a run with --svg and no -o FILE has returned
C24_Witness ==
  /\ pc = "exit" /\ cli.args.image = "svg" /\ cli.args.output = "-"
  /\ cli.exit = Some(1)

\* the table was parsed from a body whose first definition is a FOREIGN KEY
\* clause
ForeignKeyFirst(table) ==
  \E k \in 1..Len(Creates) :
    /\ IsLatest(k) /\ TableOf(k) = table
    /\ Creates[k].defs[1].fk # None

\* C25: after parse_sql, in every table and for every name n of a column of
\* the table, the column of that name (the one get_column finds) is marked
\* is_foreign_key exactly when a foreign key of the table lists n among its
\* columns, wherever the FOREIGN KEY clause stood in the body and when it
\* came by ALTER TABLE.
C25_ForeignKeyFlag ==
  pc \in {"done", "rendered"} =>
    \A k \in 1..Len(all_tables(db)) :
      LET table == all_tables(db)[k]
      IN  \A i \in 1..Len(table.columns) :
            table.columns[FirstColumnIndex(table, table.columns[i].name)].is_foreign_key
              <=> \E f \in 1..Len(table.foreign_keys) :
                    \E n \in 1..Len(table.foreign_keys[f].columns) :
                      table.foreign_keys[f].columns[n] = table.columns[i].name

\* a table whose FOREIGN KEY clause stood before its column definitions has
\* been parsed, and the column the clause names is marked
C25_Witness ==
  /\ pc = "done"
  /\ \E k \in 1..Len(all_tables(db)) :
       /\ ForeignKeyFirst(all_tables(db)[k])
       /\ \E i \in 1..Len(all_tables(db)[k].columns) :
            /\ all_tables(db)[k].columns[i].name = "user_id"
            /\ all_tables(db)[k].columns[i].is_foreign_key

\* C26: after parse_sql, in every table each column marked is_primary_key is
\* named in the table's primary_key list, also when the mark came from an
\* inline PRIMARY KEY in the column definition.
C26_MarkedColumnsAreListed ==
  pc \in {"done", "rendered"} =>
    \A k \in 1..Len(all_tables(db)) :
      \A i \in 1..Len(all_tables(db)[k].columns) :
        all_tables(db)[k].columns[i].is_primary_key =>
          \E n \in 1..Len(all_tables(db)[k].primary_key) :
            all_tables(db)[k].primary_key[n] = all_tables(db)[k].columns[i].name

\* the commas of the body that stand outside every string and parenthesis,
\* as the characters before each of them decide
SplitCommas(body) ==
  { i \in 1..Len(body) :
      /\ At(body, i) = ","
      /\ ~ScanEnd(Sub(body, 1, i - 1)).in_string
      /\ ScanEnd(Sub(body, 1, i - 1)).paren_depth = 0 }

\* the segments of the body from lo on that the commas delimit, in order
RECURSIVE SegmentsFrom(_, _, _)
SegmentsFrom(body, commas, lo) ==
  IF \E c \in commas : c >= lo
  THEN LET c == CHOOSE c \in commas : c >= lo /\ \A d \in commas : d >= lo => c <= d
       IN  <<Sub(body, lo, c - 1)>> \o SegmentsFrom(body, commas, c + 1)
  ELSE <<Sub(body, lo, Len(body))>>

\* the maximal segments of the body between consecutive split commas
Segments(body) == SegmentsFrom(body, SplitCommas(body), 1)

\* the segments, each trimmed
Trimmed(segments) == [j \in 1..Len(segments) |-> Strip(segments[j])]

\* the segments that become definitions: all of them, but not a last one
\* that holds no character
Emitted(segments) ==
  IF segments[Len(segments)] = "" THEN SubSeq(segments, 1, Len(segments) - 1) ELSE segments

\* the text without its white space
Unspaced(s) == Translate(s, [c \in SpaceChars |-> ""])

\* the body without its split commas
RECURSIVE Concat(_)
Concat(texts) == IF texts = <<>> THEN "" ELSE Head(texts) \o Concat(Tail(texts))

\* the body read last, while the loop over the CREATE TABLE statements runs:
\* every body of the input is the last one right after it was read
LastBody == IF pc = "create" /\ bodies # <<>> THEN {bodies[Len(bodies)]} ELSE {}

\* C27 as stated: the definitions _split_definitions returns are, in order,
\* exactly the maximal segments of the body between consecutive split commas,
\* each trimmed.
C27_AllSegments ==
  \A b \in LastBody : b.definitions = Trimmed(Segments(b.body))

\* C27: _split_definitions loses and reorders nothing: the definitions it
\* returns are, in order, the maximal segments of the body between
\* consecutive split commas, each trimmed, where the text after the last
\* split comma (the whole body when there is none) gives a definition only
\* if it holds a character; so the characters of the body other than split
\* commas and white space are those of the definitions, in source order, and
\* whether a comma splits is decided by the characters before it.
C27_SplitLosesNothing ==
  \A b \in LastBody :
    /\ b.definitions = Trimmed(Emitted(Segments(b.body)))
    /\ Unspaced(Concat(b.definitions)) = Unspaced(Concat(Segments(b.body)))

\* a body was split at its one top-level comma while a comma inside a string
\* literal and a comma inside parentheses split nothing
C27_Witness ==
  \E b \in LastBody :
    /\ Len(b.definitions) = 2
    /\ Cardinality(SplitCommas(b.body)) = 1
    /\ Cardinality({ i \in 1..Len(b.body) : At(b.body, i) = "," }) = 3
    /\ Contains(b.body, "''") /\ Contains(b.body, "(10,2)")

\* C28: a table parsed from a CREATE TABLE body (cut out whole and split into
\* its definitions) has exactly one column per column definition of the
\* body, in declaration order and under the declared name, also when the
\* name begins with the letters of a constraint keyword.
C28_OneColumnPerDefinition ==
  \A k \in 1..Len(bodies) :
    (IsLatest(k) /\ BodyWhole(k) /\ SplitWhole(k)) =>
      ColumnNames(TableOf(k)) = DeclaredColumns(Creates[k].defs)

\* the output has a relationship line from the table source to the table
\* target
HasLine(source, target) ==
  \E i \in 1..Len(RelationshipLines) :
    /\ SourceId(RelationshipLines[i]) = _sanitize_identifier(source, options)
    /\ TargetId(RelationshipLines[i]) = _sanitize_identifier(target, options)

\* the table passes the schema and table filters
IsFiltered(table) == \E j \in 1..Len(FilteredTables) : FilteredTables[j] = table

\* C29: a foreign key written REFERENCES public.T in a table of another
\* schema S is rendered as a relationship to the table public.T, also when a
\* table S.T exists: when both tables pass the filters, the output has the
\* table public.T (under connected_only too) and the line from the table to
\* public.T, and no line from the table to S.T.
C29_PublicQualifiedReference ==
  pc = "rendered" =>
    \A k \in 1..Len(Creates) :
      (IsLatest(k) /\ BodyWhole(k) /\ SplitWhole(k) /\ Creates[k].schema # DEFAULT_SCHEMA) =>
        \A d \in 1..Len(Creates[k].defs) :
          LET def == Creates[k].defs[d]
              local == get_table(db, Creates[k].schema, def.fk[1].ref_table)
              public == get_table(db, DEFAULT_SCHEMA, def.fk[1].ref_table)
          IN  (/\ def.fk # None
               /\ Contains(def.text, "REFERENCES public." \o def.fk[1].ref_table)
               /\ public # None
               /\ IsFiltered(TableOf(k)) /\ IsFiltered(public[1])) =>
                /\ ("    " \o _sanitize_identifier(public[1], options) \o " {") \in TableHeaders
                /\ HasLine(TableOf(k), public[1])
                /\ local # None => ~HasLine(TableOf(k), local[1])

\* C30: in one output of render_mermaid no two tables of the rendered set
\* have the same identifier, whatever the schema names, the table names and
\* show_schema_prefix are; so the output opens as many different entities as
\* tables were rendered.
C30_IdentifiersDistinct ==
  pc = "rendered" =>
    /\ \A i, j \in 1..Len(RenderedTables) :
         i # j => _sanitize_identifier(RenderedTables[i], options)
                    # _sanitize_identifier(RenderedTables[j], options)
    /\ Cardinality(TableHeaders) = Len(RenderedTables)

=============================================================================
